---- MODULE Spec2Model ----
(***************************************************************************)
(* Gerbot: per-guild voice sessions, the playback queue and the handlers   *)
(* that act on them (src/src/music_commands.rs, src/src/main.rs).          *)
(*                                                                         *)
(* Every command invocation and every voice-state-update event runs as an  *)
(* asynchronous task ("op").  A step of the model is the code a task runs  *)
(* between two suspension points at which another task can observe or      *)
(* change the guild's Call: the Call mutex (tokio::sync::Mutex) is taken   *)
(* by `call.lock().await` and released where the guard is dropped.         *)
(***************************************************************************)
EXTENDS Naturals, Integers, Sequences, FiniteSets, TLC

\* Number of handler invocations (commands and events) in one behaviour.
MaxOps == 2

\* How many tracks can already be queued when the behaviour starts.
InitQueueLens == {0, 1}

\* Handlers that run at the same time: each slot holds one running handler,
\* or the result of the last handler that ran in it.
Slots == {1, 2}

\* Guilds the bot is a member of, voice channels (ids are global), and human
\* users.
Guilds == {1, 2}
Channels == {1, 2}
Users == {1}

\* Option<ChannelId>::None
NoChannel == 0

VARIABLES
    guild_of,   \* the cache: channel -> the guild it belongs to
    registry,   \* songbird.calls: guild -> set of registered Call objects (ids)
    call,       \* per guild: the Call's connection and its TrackQueue
    lock,       \* per guild: the op holding the Call mutex, 0 when free
    voice,      \* user -> channel the gateway cache reports (NoChannel: none)
    ops,        \* per slot: the handler's position and its local variables
    nops,       \* handlers invoked so far
    yt_api_client,      \* YoutubeClient.yt_api_client is Some (an API key is set)
    rate_limited_day,   \* YtApiClient.rate_limited_day: 0 for None, or a Julian day
    now_utc,            \* the Julian day OffsetDateTime::now_utc() reports
    yt,                 \* per task: a YoutubeClient operation and its locals
    ncalls,             \* YoutubeClient operations started so far
    called,             \* the conversion or boundary function applied last
    input,              \* its argument
    output,             \* its result
    queued,             \* metadata of the tracks enqueue_track has queued
    prev                \* the application before it

\* The voice side of the bot, the YouTube client, and the conversions.
music_vars == <<registry, call, lock, voice, ops, nops>>
yt_vars == <<yt_api_client, rate_limited_day, now_utc, yt, ncalls>>
fn_vars == <<called, input, output, prev, queued>>
cache_vars == <<guild_of>>
vars == <<music_vars, yt_vars, fn_vars, cache_vars>>

\* The guild a channel belongs to, and the guilds that have a voice channel:
\* commands and voice-state events come from these.
GuildOf(c) == guild_of[c]
Served == {guild_of[c] : c \in Channels}

\* Both channels belong to guild 1.
OneGuild == guild_of = [c \in Channels |-> 1]

\* Each channel is the voice channel of a guild of its own.
TwoGuilds == guild_of = [c \in Channels |-> c]

----------------------------------------------------------------------------
\* Local state of a handler that has not been invoked yet.
IdleOp ==
    [id |-> 0, cmd |-> "none", pc |-> "idle", guild |-> 1, author |-> 1,
     chan |-> NoChannel, skipq |-> FALSE, handle |-> 0, track |-> 0,
     was |-> FALSE,
     result |-> "none", joins |-> 0, leaves |-> 0, qstops |-> 0]

\* A Call that songbird has just constructed: no connection, empty queue.
NewCall == [channel |-> NoChannel, joiner |-> 0, queue |-> <<>>]

\* A queued track: the op that enqueued it, whether it has been told to stop,
\* and whether it loops (LoopState != Finite(0)).
NewTrack(id) == [by |-> id, stopped |-> FALSE, loop |-> FALSE]

\* Tracks queued by earlier commands; their ids are negative.  Only the
\* current track can be looping.
InitQueues ==
    {[i \in 1..n |-> [NewTrack(-i) EXCEPT !.loop = (i = 1 /\ l)]] :
        n \in InitQueueLens, l \in BOOLEAN}

\* A Call as earlier commands and events can have left it: in a channel or
\* in none, with any queue.
InitCalls ==
    {[NewCall EXCEPT !.channel = c, !.queue = q] :
        c \in {NoChannel} \cup Channels, q \in InitQueues}

\* Tasks that use the YoutubeClient at the same time.
YtTasks == {1, 2}

\* Local state of a task that runs no YoutubeClient operation: the operation,
\* its position, the day it has read (the marker in is_ratelimited, the clock
\* in process_api_response), the two responses it holds, the requests it has
\* sent and its result.
YtIdleOp ==
    [cmd |-> "none", pc |-> "idle", day |-> 0, meta |-> "none",
     items |-> "none", sent |-> 0, result |-> "none"]

\* The YouTube client before any operation: no marker, the clock on day 1.
YtIdle ==
    /\ yt_api_client = TRUE
    /\ rate_limited_day = 0
    /\ now_utc = 1
    /\ yt = [t \in YtTasks |-> YtIdleOp]
    /\ ncalls = 0

\* The last application of a function: its name, argument and result.
NoApplication == [called |-> "none", input |-> <<>>, output |-> <<>>]

\* No function has been applied yet.
FnIdle ==
    /\ called = "none"
    /\ input = <<>>
    /\ output = <<>>
    /\ prev = NoApplication
    /\ queued = <<>>

\* The voice side with no Call registered and no handler running.
MusicIdle ==
    /\ OneGuild
    /\ registry = [g \in Guilds |-> {}]
    /\ call = [g \in Guilds |-> NewCall]
    /\ lock = [g \in Guilds |-> 0]
    /\ voice = [u \in Users |-> NoChannel]
    /\ ops = [o \in Slots |-> IdleOp]
    /\ nops = 0

\* The bot starts with no Call registered for a guild, or with the Call that
\* earlier commands have registered.
Init ==
    /\ OneGuild
    /\ registry \in [Guilds -> {{}, {1}}]
    /\ \A g \in Guilds \ Served : registry[g] = {}
    /\ call \in [Guilds -> InitCalls]
    /\ \A g \in Guilds : registry[g] = {} => call[g] = NewCall
    /\ lock = [g \in Guilds |-> 0]
    /\ voice \in [Users -> {NoChannel} \cup Channels]
    /\ ops = [o \in Slots |-> IdleOp]
    /\ nops = 0
    /\ YtIdle
    /\ FnIdle

----------------------------------------------------------------------------
\* Helpers over the state.

\* guild.voice_states.get(user).channel_id, read from guild g's cache.
get_author_voice_state(g, a) ==
    IF voice[a] # NoChannel /\ GuildOf(voice[a]) = g THEN voice[a] ELSE NoChannel

\* songbird.get(guild_id): the registered Call, 0 for None.
songbird_get(g) == IF registry[g] = {} THEN 0 ELSE CHOOSE c \in registry[g] : TRUE

\* A get_or_insert that registers a new Call on every call.
get_or_insert_always(g) == registry[g] \cup {Cardinality(registry[g]) + 1}

\* songbird.get_or_insert(guild_id): registers a new Call only if none is.
get_or_insert(g) ==
    IF registry[g] = {} THEN {Cardinality(registry[g]) + 1} ELSE registry[g]

\* call.current_channel()
current_channel(g) == call[g].channel

\* The handler returns: its task ends with the given result.
Finish(o, res) ==
    [ops[o] EXCEPT !.pc = "done", !.result = res, !.id = 0,
                   !.author = IdleOp.author, !.skipq = FALSE, !.handle = 0,
                   !.track = 0, !.was = FALSE]

\* A slot is free when no handler runs in it.
Free(o) == ops[o].pc \in {"idle", "done"}

\* A new handler takes the first free slot (slots carry no meaning).
CanStart(o) ==
    /\ nops < MaxOps
    /\ Free(o)
    /\ \A p \in Slots : p < o => ~Free(p)

\* The handler is invoked with its arguments.
Begin(cmd, g, a) ==
    [IdleOp EXCEPT !.id = nops + 1, !.cmd = cmd, !.guild = g, !.author = a]

----------------------------------------------------------------------------
\* /play (music_commands.rs, play): the author's voice state is read first;
\* without one the command returns UserNotInVoice.
play(o, g, a, sq) ==
    /\ CanStart(o)
    /\ LET connect_to == get_author_voice_state(g, a)
           started == [Begin("play", g, a) EXCEPT !.skipq = sq,
                                                  !.chan = connect_to]
       IN  ops' = [ops EXCEPT ![o] =
                      IF connect_to = NoChannel
                      THEN [Begin("play", g, IdleOp.author) EXCEPT
                                !.id = 0, !.pc = "done",
                                !.result = "UserNotInVoice"]
                      ELSE [started EXCEPT !.pc = "join_voice"]]
    /\ nops' = nops + 1
    /\ UNCHANGED <<registry, call, lock, voice>>
    /\ UNCHANGED <<yt_vars, fn_vars, cache_vars>>

\* A join_voice without the Occupied branch: a bot used in another channel
\* is moved to the requested one.
join_voice_branch_no_occupied(current, channel_id) ==
    IF current # NoChannel /\ current = channel_id THEN "reuse" ELSE "join"

\* A join_voice without the reuse branch: a bot already in the requested
\* channel joins it again.
join_voice_branch_no_reuse(current, channel_id) ==
    IF current # NoChannel /\ current # channel_id THEN "occupied" ELSE "join"

\* join_voice, the branch taken once the Call has been found and its
\* current_channel() read: the existing Call is returned, the request is
\* refused, or the code falls through to the join.
join_voice_branch(current, channel_id) ==
    IF current # NoChannel /\ current = channel_id THEN "reuse"
    ELSE IF current # NoChannel /\ current # channel_id THEN "occupied"
    ELSE "join"

\* join_voice up to the join: the Call is looked up and its mutex is taken for
\* the one statement that reads current_channel(); the guard is dropped at
\* the end of that statement, before any join is attempted.  Without a
\* registered Call the code goes straight to the join.
join_voice(o) ==
    LET g == ops[o].guild
        branch == IF songbird_get(g) = 0 THEN "join"
                  ELSE join_voice_branch(current_channel(g), ops[o].chan)
    IN  /\ ops[o].pc = "join_voice"
        /\ songbird_get(g) # 0 => lock[g] = 0
        /\ ops' = [ops EXCEPT ![o] =
               CASE branch = "reuse" ->
                        [@ EXCEPT !.pc = "enqueue_track",
                                  !.handle = songbird_get(g)]
                 [] branch = "occupied" -> Finish(o, "JoinVoiceError_Occupied")
                 [] OTHER -> [@ EXCEPT !.pc = "join"]]
        /\ UNCHANGED <<registry, call, lock, voice, nops>>
        /\ UNCHANGED <<yt_vars, fn_vars, cache_vars>>

\* Call::join(channel_id) keeps a completed connection to the same channel
\* as it is (the returned future is ready at once).
call_join_reuses(c, channel_id) == c.channel = channel_id /\ c.joiner = 0

\* Call::join(channel_id): otherwise the connection is replaced by one to
\* channel_id that is in progress on behalf of the caller; the future of a
\* join it replaces fails.
call_join(c, channel_id, o) ==
    IF call_join_reuses(c, channel_id) THEN c
    ELSE [c EXCEPT !.channel = channel_id, !.joiner = o]

\* songbird.join(guild_id, channel_id), first stage: get_or_insert the Call,
\* take its mutex, call Call::join and drop the guard.
songbird_join(o) ==
    LET g == ops[o].guild
    IN  /\ ops[o].pc = "join"
        /\ lock[g] = 0
        /\ registry' = [registry EXCEPT ![g] = get_or_insert(g)]
        /\ call' = [call EXCEPT ![g] = call_join(@, ops[o].chan, o)]
        /\ ops' = [ops EXCEPT ![o] =
               IF call_join_reuses(call[g], ops[o].chan)
               THEN [@ EXCEPT !.pc = "enqueue_track", !.joins = @ + 1,
                              !.handle = songbird_get(g)]
               ELSE [@ EXCEPT !.pc = "join_wait", !.joins = @ + 1]]
        /\ UNCHANGED <<lock, voice, nops>>
        /\ UNCHANGED <<yt_vars, fn_vars, cache_vars>>

\* A join_voice that swallows the join error and hands back the Call.
join_failed_swallowed(o) == [ops[o] EXCEPT !.pc = "enqueue_track"]

\* `songbird.join(..).await?` failed: join_voice returns JoinVoiceError::Join
\* and play returns it.
join_failed(o) == Finish(o, "JoinVoiceError_Join")

\* songbird.join, second stage: the Join future resolves.  It succeeds when
\* the connection made for this op is complete (the gateway's answer is
\* applied under the Call mutex), and fails when the transport reports an
\* error or when the connection was replaced or dropped meanwhile.
join_resolve(o) ==
    LET g == ops[o].guild
        mine == call[g].joiner = o
    IN  /\ ops[o].pc = "join_wait"
        /\ \/ /\ mine
              /\ lock[g] = 0
              /\ call' = [call EXCEPT ![g].joiner = 0]
              /\ ops' = [ops EXCEPT ![o] =
                     [@ EXCEPT !.pc = "enqueue_track",
                               !.handle = songbird_get(g)]]
           \/ /\ ops' = [ops EXCEPT ![o] = join_failed(o)]
              /\ UNCHANGED call
        /\ UNCHANGED <<registry, lock, voice, nops>>
        /\ UNCHANGED <<yt_vars, fn_vars, cache_vars>>

\* enqueue_track: after the metadata lookup the Call mutex is taken and the
\* track is appended to the queue; the guard is dropped on return.
enqueue_track(o) ==
    LET g == ops[o].guild
    IN  /\ ops[o].pc = "enqueue_track"
        /\ lock[g] = 0
        /\ call' = [call EXCEPT ![g].queue = Append(@, NewTrack(ops[o].id))]
        /\ ops' = [ops EXCEPT ![o].pc =
                IF ops[o].skipq THEN "skip_queue" ELSE "reply"]
        /\ UNCHANGED <<registry, lock, voice, nops>>
        /\ UNCHANGED <<yt_vars, fn_vars, cache_vars>>

\* A skip_queue branch that reorders whenever the queue has an entry.
play_skip_queue_nonempty(o) ==
    LET g == ops[o].guild
    IN  /\ ops[o].pc = "skip_queue"
        /\ lock[g] = 0
        /\ lock' = [lock EXCEPT ![g] = o]
        /\ ops' = [ops EXCEPT ![o].pc =
                IF Len(call[g].queue) > 0 THEN "modify_queue"
                ELSE "reply_locked"]
        /\ UNCHANGED <<registry, call, voice, nops>>
        /\ UNCHANGED <<yt_vars, fn_vars, cache_vars>>

\* play, skip_queue branch: the mutex is taken again and queue.len() is read.
play_skip_queue(o) ==
    LET g == ops[o].guild
    IN  /\ ops[o].pc = "skip_queue"
        /\ lock[g] = 0
        /\ lock' = [lock EXCEPT ![g] = o]
        /\ ops' = [ops EXCEPT ![o].pc =
                IF Len(call[g].queue) > 1 THEN "modify_queue"
                ELSE "reply_locked"]
        /\ UNCHANGED <<registry, call, voice, nops>>
        /\ UNCHANGED <<yt_vars, fn_vars, cache_vars>>

\* A reordering that stops the current track and moves nothing.
not_moved(q) == [q EXCEPT ![1].stopped = TRUE]

\* A reordering that moves the new track and signals no stop.
moved_unstopped(q) == <<q[1], q[Len(q)]>> \o SubSeq(q, 2, Len(q) - 1)

\* queue.modify_queue closure: pop_back().unwrap(), insert(1, new),
\* front().unwrap().stop().  The queue's own lock is held for the closure.
\* pop_back on an empty deque and insert(1, _) on an empty deque panic; the
\* unwinding drops the Call guard.
moved_to_front(q) ==
    <<[q[1] EXCEPT !.stopped = TRUE], q[Len(q)]>> \o SubSeq(q, 2, Len(q) - 1)

play_modify_queue(o) ==
    LET g == ops[o].guild
        q == call[g].queue
    IN  /\ ops[o].pc = "modify_queue"
        /\ lock[g] = o
        /\ IF Len(q) > 1
           THEN /\ call' = [call EXCEPT ![g].queue = moved_to_front(q)]
                /\ ops' = [ops EXCEPT ![o].pc = "reply_locked"]
                /\ UNCHANGED lock
           ELSE /\ call' = [call EXCEPT ![g].queue = <<>>]
                /\ ops' = [ops EXCEPT ![o] = Finish(o, "Panic")]
                /\ lock' = [lock EXCEPT ![g] = 0]
        /\ UNCHANGED <<registry, voice, nops>>
        /\ UNCHANGED <<yt_vars, fn_vars, cache_vars>>

\* The reply (to_channel, respond_success) sent without the Call mutex; a
\* failed request is returned as CommandError::Serenity.
reply(o) ==
    /\ ops[o].pc = "reply"
    /\ \E res \in {"Ok", "Serenity"} : ops' = [ops EXCEPT ![o] = Finish(o, res)]
    /\ UNCHANGED <<registry, call, lock, voice, nops>>
    /\ UNCHANGED <<yt_vars, fn_vars, cache_vars>>

\* A reply after which the guard is not dropped.
reply_locked_keeps_guard(o) ==
    /\ ops[o].pc = "reply_locked"
    /\ \E res \in {"Ok", "Serenity"} :
           ops' = [ops EXCEPT ![o] = Finish(o, res)]
    /\ UNCHANGED <<registry, call, lock, voice, nops>>
    /\ UNCHANGED <<yt_vars, fn_vars, cache_vars>>

\* The reply sent while the Call guard is still alive; the guard is dropped
\* when the handler returns, with either result.
reply_locked(o) ==
    LET g == ops[o].guild
    IN  /\ ops[o].pc = "reply_locked"
        /\ lock[g] = o
        /\ \E res \in {"Ok", "Serenity"} :
               ops' = [ops EXCEPT ![o] = Finish(o, res)]
        /\ lock' = [lock EXCEPT ![g] = 0]
        /\ UNCHANGED <<registry, call, voice, nops>>
        /\ UNCHANGED <<yt_vars, fn_vars, cache_vars>>

----------------------------------------------------------------------------
\* A command that starts with get_call: now_playing, queue, loop, skip, stop,
\* leave.
GetCallCommands == {"now_playing", "queue", "loop", "skip", "stop", "leave"}

\* Those of them that only read the queue, and those that change the session.
ReadingCommands == {"now_playing", "queue"}
ChangingCommands == GetCallCommands \ ReadingCommands

command(o, cmd, g, a) ==
    /\ CanStart(o)
    /\ ops' = [ops EXCEPT ![o] = [Begin(cmd, g, a) EXCEPT !.pc = "get_call"]]
    /\ nops' = nops + 1
    /\ UNCHANGED <<registry, call, lock, voice>>
    /\ UNCHANGED <<yt_vars, fn_vars, cache_vars>>

\* A co-location test that accepts any channel of the caller.
in_call_anywhere(bot_channel, user_channel) ==
    /\ bot_channel # NoChannel
    /\ user_channel # NoChannel

\* get_call: the Call is looked up, its mutex is taken for the statement that
\* reads current_channel(), and the author's channel is compared with it.
\* The guard is dropped before get_call returns the Call.
in_call(bot_channel, user_channel) ==
    /\ bot_channel # NoChannel
    /\ user_channel # NoChannel
    /\ bot_channel = user_channel

\* A get_call that waits until no guild's Call is locked.
get_call_one_lock(o) ==
    LET g == ops[o].guild
        user_channel == get_author_voice_state(g, ops[o].author)
    IN  /\ ops[o].pc = "get_call"
        /\ IF songbird_get(g) = 0
           THEN ops' = [ops EXCEPT ![o] = Finish(o, "NotInCall")]
           ELSE /\ \A b \in Guilds : lock[b] = 0
                /\ ops' = [ops EXCEPT ![o] =
                       IF in_call(current_channel(g), user_channel)
                       THEN [@ EXCEPT !.pc = ops[o].cmd, !.chan = user_channel,
                                      !.handle = songbird_get(g)]
                       ELSE Finish(o, "NotInCall")]
        /\ UNCHANGED <<registry, call, lock, voice, nops>>
        /\ UNCHANGED <<yt_vars, fn_vars, cache_vars>>

get_call(o) ==
    LET g == ops[o].guild
        user_channel == get_author_voice_state(g, ops[o].author)
    IN  /\ ops[o].pc = "get_call"
        /\ IF songbird_get(g) = 0
           THEN ops' = [ops EXCEPT ![o] = Finish(o, "NotInCall")]
           ELSE /\ lock[g] = 0
                /\ ops' = [ops EXCEPT ![o] =
                       IF in_call(current_channel(g), user_channel)
                       THEN [@ EXCEPT !.pc = ops[o].cmd, !.chan = user_channel,
                                      !.handle = songbird_get(g)]
                       ELSE Finish(o, "NotInCall")]
        /\ UNCHANGED <<registry, call, lock, voice, nops>>
        /\ UNCHANGED <<yt_vars, fn_vars, cache_vars>>

\* A current() that reports a track on an empty queue as well.
queue_current_always(q) == IF q = <<>> THEN 1 ELSE q[1].by

\* TrackQueue::current(): the handle of the track at the front (the op that
\* enqueued it stands for the handle), 0 for None.
queue_current(q) == IF q = <<>> THEN 0 ELSE q[1].by

\* TrackQueue::skip(): the current track is told to stop; the queue advances
\* when the driver reports the track's end (track_end).
queue_skip(q) == [q EXCEPT ![1].stopped = TRUE]

\* /skip after get_call: the mutex is taken and held until the handler returns.
skip(o) ==
    LET g == ops[o].guild
        q == call[g].queue
    IN  /\ ops[o].pc = "skip"
        /\ lock[g] = 0
        /\ IF queue_current(q) = 0
           THEN /\ ops' = [ops EXCEPT ![o] = Finish(o, "QueueEmpty")]
                /\ UNCHANGED <<call, lock>>
           ELSE /\ call' = [call EXCEPT ![g].queue = queue_skip(q)]
                /\ lock' = [lock EXCEPT ![g] = o]
                /\ ops' = [ops EXCEPT ![o].pc = "reply_locked"]
        /\ UNCHANGED <<registry, voice, nops>>
        /\ UNCHANGED <<yt_vars, fn_vars, cache_vars>>

\* A stop that removes the current track only.
queue_stop_current(q) == IF q = <<>> THEN q ELSE Tail(q)

\* TrackQueue::stop(): every track is stopped and removed.
queue_stop(q) == <<>>

\* /stop after get_call.
stop(o) ==
    LET g == ops[o].guild
        q == call[g].queue
    IN  /\ ops[o].pc = "stop"
        /\ lock[g] = 0
        /\ IF q = <<>>
           THEN /\ ops' = [ops EXCEPT ![o] = Finish(o, "QueueEmpty")]
                /\ UNCHANGED <<call, lock>>
           ELSE /\ call' = [call EXCEPT ![g].queue = queue_stop(q)]
                /\ lock' = [lock EXCEPT ![g] = o]
                /\ ops' = [ops EXCEPT ![o] =
                       [@ EXCEPT !.pc = "reply_locked", !.qstops = @ + 1]]
        /\ UNCHANGED <<registry, voice, nops>>
        /\ UNCHANGED <<yt_vars, fn_vars, cache_vars>>

\* A leave that tells the gateway but keeps the connection's channel.
call_leave_keeps_channel(c) == [c EXCEPT !.joiner = 0]

\* Call::leave(): the connection is dropped locally, then the gateway is told.
call_leave(c) == [c EXCEPT !.channel = NoChannel, !.joiner = 0]

\* /leave after get_call: queue().stop(), stop(), leave().await under the
\* mutex; a failed leave returns LeaveVoice and drops the guard.
leave(o) ==
    LET g == ops[o].guild
    IN  /\ ops[o].pc = "leave"
        /\ lock[g] = 0
        /\ call' = [call EXCEPT ![g] =
                call_leave([@ EXCEPT !.queue = queue_stop(@)])]
        /\ \E ok \in BOOLEAN :
              /\ ops' = [ops EXCEPT ![o] =
                     [(IF ok THEN [@ EXCEPT !.pc = "reply_locked"]
                             ELSE Finish(o, "LeaveVoice"))
                      EXCEPT !.qstops = @ + 1, !.leaves = @ + 1]]
              /\ lock' = [lock EXCEPT ![g] = IF ok THEN o ELSE 0]
        /\ UNCHANGED <<registry, voice, nops>>
        /\ UNCHANGED <<yt_vars, fn_vars, cache_vars>>

\* /loop after get_call: the mutex is held only to fetch the current track's
\* handle.
loop_command(o) ==
    LET g == ops[o].guild
        q == call[g].queue
    IN  /\ ops[o].pc = "loop"
        /\ lock[g] = 0
        /\ ops' = [ops EXCEPT ![o] =
                IF q = <<>> THEN Finish(o, "QueueEmpty")
                ELSE [@ EXCEPT !.pc = "get_info", !.track = q[1].by]]
        /\ UNCHANGED <<registry, call, lock, voice, nops>>
        /\ UNCHANGED <<yt_vars, fn_vars, cache_vars>>

\* The positions of the track a handle refers to (none once it has ended).
positions(q, id) == {i \in 1..Len(q) : q[i].by = id}

\* current_track.get_info().await.unwrap(): fails, and so panics, when the
\* track has ended.
loop_get_info(o) ==
    LET g == ops[o].guild
        q == call[g].queue
        at == positions(q, ops[o].track)
    IN  /\ ops[o].pc = "get_info"
        /\ ops' = [ops EXCEPT ![o] =
                IF at = {} THEN Finish(o, "Panic")
                ELSE [@ EXCEPT !.pc = "set_loop",
                               !.was = q[CHOOSE i \in at : TRUE].loop]]
        /\ UNCHANGED <<registry, call, lock, voice, nops>>
        /\ UNCHANGED <<yt_vars, fn_vars, cache_vars>>

\* A loop switch that sets the flag of every queued track.
set_loop_all(q, id, on) == [i \in 1..Len(q) |-> [q[i] EXCEPT !.loop = on]]

\* enable_loop() / disable_loop() on the handle; the result is discarded.
set_loop(q, id, on) ==
    [i \in 1..Len(q) |-> IF q[i].by = id THEN [q[i] EXCEPT !.loop = on] ELSE q[i]]

loop_set(o) ==
    LET g == ops[o].guild
    IN  /\ ops[o].pc = "set_loop"
        /\ call' = [call EXCEPT ![g].queue = set_loop(@, ops[o].track, ~ops[o].was)]
        /\ ops' = [ops EXCEPT ![o].pc = "reply"]
        /\ UNCHANGED <<registry, lock, voice, nops>>
        /\ UNCHANGED <<yt_vars, fn_vars, cache_vars>>

\* /now_playing after get_call: the mutex is taken and held until the handler
\* returns; without a current track it returns QueueEmpty.
now_playing(o) ==
    LET g == ops[o].guild
        q == call[g].queue
    IN  /\ ops[o].pc = "now_playing"
        /\ lock[g] = 0
        /\ IF queue_current(q) = 0
           THEN /\ ops' = [ops EXCEPT ![o] = Finish(o, "QueueEmpty")]
                /\ UNCHANGED lock
           ELSE /\ lock' = [lock EXCEPT ![g] = o]
                /\ ops' = [ops EXCEPT ![o] =
                       [@ EXCEPT !.pc = "info_locked", !.track = queue_current(q)]]
        /\ UNCHANGED <<registry, call, voice, nops>>
        /\ UNCHANGED <<yt_vars, fn_vars, cache_vars>>

\* /queue after get_call: the mutex is taken; an empty queue is reported as
\* such, otherwise the handles of current_queue() are asked for their state.
queue_command(o) ==
    LET g == ops[o].guild
        q == call[g].queue
    IN  /\ ops[o].pc = "queue"
        /\ lock[g] = 0
        /\ lock' = [lock EXCEPT ![g] = o]
        /\ ops' = [ops EXCEPT ![o] =
               IF q = <<>> THEN [@ EXCEPT !.pc = "reply_locked"]
               ELSE [@ EXCEPT !.pc = "info_locked", !.track = queue_current(q)]]
        /\ UNCHANGED <<registry, call, voice, nops>>
        /\ UNCHANGED <<yt_vars, fn_vars, cache_vars>>

\* get_info().await.unwrap() under the Call mutex (now_playing: the current
\* track; queue: every track of the snapshot, of which the front one ends
\* first): it panics when the track has ended, and the unwinding drops the
\* guard.
info_locked(o) ==
    LET g == ops[o].guild
        at == positions(call[g].queue, ops[o].track)
    IN  /\ ops[o].pc = "info_locked"
        /\ lock[g] = o
        /\ IF at = {}
           THEN /\ ops' = [ops EXCEPT ![o] = Finish(o, "Panic")]
                /\ lock' = [lock EXCEPT ![g] = 0]
           ELSE /\ ops' = [ops EXCEPT ![o].pc = "reply_locked"]
                /\ UNCHANGED lock
        /\ UNCHANGED <<registry, call, voice, nops>>
        /\ UNCHANGED <<yt_vars, fn_vars, cache_vars>>

----------------------------------------------------------------------------
\* FullEvent::VoiceStateUpdate is delivered for guild g (main.rs, on_api_event).
voice_state_update(o, g) ==
    /\ CanStart(o)
    /\ ops' = [ops EXCEPT ![o] = [Begin("event", g, 1) EXCEPT !.pc = "on_api_event"]]
    /\ nops' = nops + 1
    /\ UNCHANGED <<registry, call, lock, voice>>
    /\ UNCHANGED <<yt_vars, fn_vars, cache_vars>>

\* A member test that sees nobody.
others_in_nobody(channel_id) == FALSE

\* Whether a member other than the bot is in the channel.
others_in(channel_id) == \E u \in Users : voice[u] = channel_id

\* A should_leave that does not ask whether the bot is in a channel.
should_leave_unconnected(g) == ~others_in(current_channel(g))

\* should_leave: the bot is in a channel and nobody else is.
should_leave(g) ==
    /\ current_channel(g) # NoChannel
    /\ ~others_in(current_channel(g))

\* The forced-disconnect test with the channel condition inverted.
disconnected_inverted(g) ==
    /\ current_channel(g) # NoChannel
    /\ call[g].queue # <<>>

\* The bot lost its connection while tracks are queued.
disconnected(g) ==
    /\ current_channel(g) = NoChannel
    /\ call[g].queue # <<>>

\* The handler body: without a Call it returns; otherwise everything from
\* call_lock.lock().await to the return runs under the mutex.
on_api_event(o) ==
    LET g == ops[o].guild
        cleared == [call[g] EXCEPT !.queue = queue_stop(@)]
    IN  /\ ops[o].pc = "on_api_event"
        /\ IF songbird_get(g) = 0
           THEN /\ ops' = [ops EXCEPT ![o] = Finish(o, "Ok")]
                /\ UNCHANGED call
           ELSE /\ lock[g] = 0
                /\ IF disconnected(g)
                   THEN /\ call' = [call EXCEPT ![g] = cleared]
                        /\ ops' = [ops EXCEPT ![o] =
                               [Finish(o, "Ok") EXCEPT !.qstops = @ + 1]]
                   ELSE IF should_leave(g)
                   THEN /\ call' = [call EXCEPT ![g] = call_leave(cleared)]
                        /\ \E res \in {"Ok", "LeaveVoice"} :
                              ops' = [ops EXCEPT ![o] =
                                  [Finish(o, res) EXCEPT !.qstops = @ + 1,
                                                         !.leaves = @ + 1]]
                   ELSE /\ ops' = [ops EXCEPT ![o] = Finish(o, "Ok")]
                        /\ UNCHANGED call
        /\ UNCHANGED <<registry, lock, voice, nops>>
        /\ UNCHANGED <<yt_vars, fn_vars, cache_vars>>

----------------------------------------------------------------------------
\* The environment.

\* A user joins, leaves or changes voice channel.
voice_move(u, c) ==
    /\ voice[u] # c
    /\ voice' = [voice EXCEPT ![u] = c]
    /\ UNCHANGED <<registry, call, lock, ops, nops>>
    /\ UNCHANGED <<yt_vars, fn_vars, cache_vars>>

\* A moderator disconnects the bot: songbird takes the Call mutex and drops
\* the connection; the queue is left as it is.
forced_disconnect(g) ==
    /\ lock[g] = 0
    /\ current_channel(g) # NoChannel
    /\ call' = [call EXCEPT ![g] = call_leave(@)]
    /\ UNCHANGED <<registry, lock, voice, ops, nops>>
    /\ UNCHANGED <<yt_vars, fn_vars, cache_vars>>

\* The driver reports the end of the current track (it finished, or it was
\* told to stop): the queue drops its head and plays the next track.  A
\* looping track ends only when it is stopped.
track_end(g) ==
    /\ call[g].queue # <<>>
    /\ call[g].queue[1].stopped \/ ~call[g].queue[1].loop
    /\ call' = [call EXCEPT ![g].queue = Tail(@)]
    /\ UNCHANGED <<registry, lock, voice, ops, nops>>
    /\ UNCHANGED <<yt_vars, fn_vars, cache_vars>>

----------------------------------------------------------------------------
Next ==
    \/ \E o \in Slots, g \in Served, a \in Users, sq \in BOOLEAN : play(o, g, a, sq)
    \/ \E o \in Slots : join_voice(o)
    \/ \E o \in Slots : songbird_join(o)
    \/ \E o \in Slots : join_resolve(o)
    \/ \E o \in Slots : enqueue_track(o)
    \/ \E o \in Slots : play_skip_queue(o)
    \/ \E o \in Slots : play_modify_queue(o)
    \/ \E o \in Slots : reply(o)
    \/ \E o \in Slots : reply_locked(o)
    \/ \E o \in Slots, cmd \in ChangingCommands, g \in Served, a \in Users :
          command(o, cmd, g, a)
    \/ \E o \in Slots : get_call(o)
    \/ \E o \in Slots : skip(o)
    \/ \E o \in Slots : stop(o)
    \/ \E o \in Slots : leave(o)
    \/ \E o \in Slots : loop_command(o)
    \/ \E o \in Slots : loop_get_info(o)
    \/ \E o \in Slots : loop_set(o)
    \/ \E o \in Slots, g \in Served : voice_state_update(o, g)
    \/ \E o \in Slots : on_api_event(o)
    \/ \E u \in Users, c \in {NoChannel} \cup Channels : voice_move(u, c)
    \/ \E g \in Served : forced_disconnect(g)
    \/ \E g \in Served : track_end(g)

\* The play command, the commands that change the session, and the events.
Spec == Init /\ [][Next]_vars

\* All commands: those of Next and the two that only read the queue.
AllNext ==
    \/ Next
    \/ \E o \in Slots, cmd \in ReadingCommands, g \in Served, a \in Users :
          command(o, cmd, g, a)
    \/ \E o \in Slots : now_playing(o)
    \/ \E o \in Slots : queue_command(o)
    \/ \E o \in Slots : info_locked(o)

\* A step of the handler running in slot o.
HandlerStep(o) ==
    \/ join_voice(o) \/ songbird_join(o) \/ join_resolve(o)
    \/ enqueue_track(o) \/ play_skip_queue(o) \/ play_modify_queue(o)
    \/ reply(o) \/ reply_locked(o) \/ get_call(o)
    \/ skip(o) \/ stop(o) \/ leave(o)
    \/ loop_command(o) \/ loop_get_info(o) \/ loop_set(o)
    \/ now_playing(o) \/ queue_command(o) \/ info_locked(o)
    \/ on_api_event(o)

\* No Call is registered, or the bot is connected in channel 1 with one
\* track queued; the user is in channel 1.
FairInit ==
    /\ OneGuild
    /\ registry \in [Guilds -> {{}, {1}}]
    /\ \A g \in Guilds \ Served : registry[g] = {}
    /\ call = [g \in Guilds |->
                  IF registry[g] = {} THEN NewCall
                  ELSE [NewCall EXCEPT !.channel = 1, !.queue = <<NewTrack(-1)>>]]
    /\ lock = [g \in Guilds |-> 0]
    /\ voice = [u \in Users |-> 1]
    /\ ops = [o \in Slots |-> IdleOp]
    /\ nops = 0
    /\ YtIdle
    /\ FnIdle

\* The runtime keeps polling every task that can make progress: a handler
\* whose next step stays possible takes it.
FairSpec ==
    FairInit /\ [][AllNext]_vars /\ \A o \in Slots : WF_vars(HandlerStep(o))

\* The play command and the environment.
PlayNext ==
    \/ \E o \in Slots, g \in Served, a \in Users, sq \in BOOLEAN : play(o, g, a, sq)
    \/ \E o \in Slots : join_voice(o)
    \/ \E o \in Slots : songbird_join(o)
    \/ \E o \in Slots : join_resolve(o)
    \/ \E o \in Slots : enqueue_track(o)
    \/ \E o \in Slots : play_skip_queue(o)
    \/ \E o \in Slots : play_modify_queue(o)
    \/ \E o \in Slots : reply(o)
    \/ \E o \in Slots : reply_locked(o)
    \/ \E u \in Users, c \in {NoChannel} \cup Channels : voice_move(u, c)
    \/ \E g \in Served : forced_disconnect(g)
    \/ \E g \in Served : track_end(g)

\* The driver handles the end of a track (a finished one, or one told to
\* stop) whenever one is pending.
PlaySpec ==
    Init /\ [][PlayNext]_vars /\ \A g \in Guilds : WF_vars(track_end(g))

\* Two guilds with one voice channel each.  In each the bot is connected and
\* has a track queued; the user is in either channel or in none.
GuildInit ==
    /\ TwoGuilds
    /\ registry = [g \in Guilds |-> {1}]
    /\ call = [g \in Guilds |->
                  [NewCall EXCEPT !.channel = g, !.queue = <<NewTrack(-g)>>]]
    /\ lock = [g \in Guilds |-> 0]
    /\ voice \in [Users -> {NoChannel} \cup Channels]
    /\ ops = [o \in Slots |-> IdleOp]
    /\ nops = 0
    /\ YtIdle
    /\ FnIdle

\* All commands and events, for two guilds.
GuildSpec == GuildInit /\ [][AllNext]_vars

----------------------------------------------------------------------------
\* The YouTube client (youtube/mod.rs, youtube/yt_api.rs).

\* YoutubeClient operations started in one behaviour.
MaxCalls == 3

\* The last day the clock reaches; the first is day 1.
LastDay == 2

YtOperations == {"search", "get_video", "get_playlist"}

\* What a request comes back with: send() fails; status 200 with a list that
\* has items, with an empty list, or with a body that does not parse; status
\* 403; any other status.
Responses == {"Transport", "Ok", "Empty", "BadJson", "Forbidden", "Other"}

\* The client starts with or without an API key, with no marker or one set on
\* day 1, on day 1.
YtInit ==
    /\ MusicIdle
    /\ yt_api_client \in BOOLEAN
    /\ rate_limited_day \in {0, 1}
    /\ now_utc = 1
    /\ yt = [t \in YtTasks |-> YtIdleOp]
    /\ ncalls = 0
    /\ FnIdle

\* The operation returns.
YtFinish(t, res) ==
    [yt[t] EXCEPT !.pc = "done", !.result = res, !.day = 0,
                  !.meta = "none", !.items = "none"]

\* YoutubeClient::search / get_video / get_playlist is called: without an
\* API client the match falls to QuotaExceeded at once.
yt_call(t, op) ==
    /\ ncalls < MaxCalls
    /\ yt[t].pc \in {"idle", "done"}
    /\ yt' = [yt EXCEPT ![t] =
            IF yt_api_client
            THEN [YtIdleOp EXCEPT !.cmd = op, !.pc = "is_ratelimited"]
            ELSE [YtFinish(t, "QuotaExceeded") EXCEPT !.cmd = op, !.sent = 0]]
    /\ ncalls' = ncalls + 1
    /\ UNCHANGED <<yt_api_client, rate_limited_day, now_utc>>
    /\ UNCHANGED <<music_vars, fn_vars, cache_vars>>

\* A staleness test that also takes today's marker for stale.
is_stale_today(day, now) == day <= now

\* day < OffsetDateTime::now_utc().to_julian_day()
is_stale(day, now) == day < now

\* An answer that never reports the limit.
ratelimited_never(marker, now) == FALSE

\* What is_ratelimited returns for the marker and the clock it has read.
ratelimited(marker, now) == marker # 0 /\ ~is_stale(marker, now)

\* is_ratelimited up to its return or to drop(rate_limit_lock): the marker
\* and the clock are read under the read lock.  A current marker makes the
\* operation fail with QuotaExceeded; a stale one is to be cleared.
is_ratelimited(t) ==
    /\ yt[t].pc = "is_ratelimited"
    /\ yt' = [yt EXCEPT ![t] =
            IF ratelimited(rate_limited_day, now_utc)
            THEN YtFinish(t, "QuotaExceeded")
            ELSE IF rate_limited_day # 0 /\ is_stale(rate_limited_day, now_utc)
            THEN [@ EXCEPT !.pc = "clear", !.day = rate_limited_day]
            ELSE [@ EXCEPT !.pc = "send"]]
    /\ UNCHANGED <<yt_api_client, rate_limited_day, now_utc, ncalls>>
    /\ UNCHANGED <<music_vars, fn_vars, cache_vars>>

\* *self.rate_limited_day.write().await = None; is_ratelimited returns false.
yt_clear(t) ==
    /\ yt[t].pc = "clear"
    /\ rate_limited_day' = 0
    /\ yt' = [yt EXCEPT ![t] = [@ EXCEPT !.pc = "send", !.day = 0]]
    /\ UNCHANGED <<yt_api_client, now_utc, ncalls>>
    /\ UNCHANGED <<music_vars, fn_vars, cache_vars>>

\* The requests are sent and awaited: one for search and get_video, two
\* (try_join!) for get_playlist.  A send that fails ends the operation.
yt_send(t) ==
    /\ yt[t].pc = "send"
    /\ \E m \in Responses, i \in Responses :
         LET two == yt[t].cmd = "get_playlist"
             sent == [yt[t] EXCEPT !.sent = IF two THEN 2 ELSE 1, !.meta = m,
                                   !.items = IF two THEN i ELSE "none"]
         IN  /\ ~two => i = "Ok"
             /\ yt' = [yt EXCEPT ![t] =
                    IF m = "Transport" \/ (two /\ i = "Transport")
                    THEN [YtFinish(t, "Request") EXCEPT !.sent = sent.sent]
                    ELSE [sent EXCEPT !.pc = "process_meta"]]
    /\ UNCHANGED <<yt_api_client, rate_limited_day, now_utc, ncalls>>
    /\ UNCHANGED <<music_vars, fn_vars, cache_vars>>

\* A process_api_response that takes 403 for any other failure.
process_api_response_no_quota(response) ==
    CASE response \in {"Ok", "Empty"} -> "Ok"
      [] response = "BadJson" -> "Request"
      [] OTHER -> "Api"

\* process_api_response by status: the parsed list, the request error of a
\* body that does not parse, QuotaExceeded after 403, Api otherwise.
process_api_response(response) ==
    CASE response \in {"Ok", "Empty"} -> "Ok"
      [] response = "BadJson" -> "Request"
      [] response = "Forbidden" -> "QuotaExceeded"
      [] OTHER -> "Api"

\* A first-item lookup that accepts an empty list.
first_item_any(response) == process_api_response(response)

\* list.items.into_iter().next().ok_or(InvalidId) on a processed response.
first_item(response) ==
    IF response = "Empty" THEN "InvalidId" ELSE process_api_response(response)

\* A get_playlist that returns the metadata without looking at the items.
get_playlist_meta_only(meta, items) == first_item(meta)

\* The result of get_playlist for its two responses: the metadata response
\* is processed first and its error returned; then the items response.
get_playlist_result(meta, items) ==
    IF first_item(meta) # "Ok" THEN first_item(meta)
    ELSE process_api_response(items)

\* The first (or only) response is processed.  After 403 the clock is read
\* (the right-hand side of the assignment) before the write lock is taken.
yt_process_meta(t) ==
    LET op == yt[t].cmd
        res == IF op = "search" THEN process_api_response(yt[t].meta)
               ELSE first_item(yt[t].meta)
    IN  /\ yt[t].pc = "process_meta"
        /\ yt' = [yt EXCEPT ![t] =
               IF process_api_response(yt[t].meta) = "QuotaExceeded"
               THEN [@ EXCEPT !.pc = "mark", !.day = now_utc]
               ELSE IF op = "get_playlist" /\ res = "Ok"
               THEN [@ EXCEPT !.pc = "process_items"]
               ELSE YtFinish(t, res)]
        /\ UNCHANGED <<yt_api_client, rate_limited_day, now_utc, ncalls>>
        /\ UNCHANGED <<music_vars, fn_vars, cache_vars>>

\* get_playlist processes the items response.
yt_process_items(t) ==
    /\ yt[t].pc = "process_items"
    /\ yt' = [yt EXCEPT ![t] =
           IF process_api_response(yt[t].items) = "QuotaExceeded"
           THEN [@ EXCEPT !.pc = "mark", !.day = now_utc]
           ELSE YtFinish(t, get_playlist_result(yt[t].meta, yt[t].items))]
    /\ UNCHANGED <<yt_api_client, rate_limited_day, now_utc, ncalls>>
    /\ UNCHANGED <<music_vars, fn_vars, cache_vars>>

\* *self.rate_limited_day.write().await = Some(day); Err(QuotaExceeded).
yt_mark(t) ==
    /\ yt[t].pc = "mark"
    /\ rate_limited_day' = yt[t].day
    /\ yt' = [yt EXCEPT ![t] = YtFinish(t, "QuotaExceeded")]
    /\ UNCHANGED <<yt_api_client, now_utc, ncalls>>
    /\ UNCHANGED <<music_vars, fn_vars, cache_vars>>

\* The UTC day changes.
midnight ==
    /\ now_utc < LastDay
    /\ now_utc' = now_utc + 1
    /\ UNCHANGED <<yt_api_client, rate_limited_day, yt, ncalls>>
    /\ UNCHANGED <<music_vars, fn_vars, cache_vars>>

YtNext ==
    \/ \E t \in YtTasks, op \in YtOperations : yt_call(t, op)
    \/ \E t \in YtTasks : is_ratelimited(t)
    \/ \E t \in YtTasks : yt_clear(t)
    \/ \E t \in YtTasks : yt_send(t)
    \/ \E t \in YtTasks : yt_process_meta(t)
    \/ \E t \in YtTasks : yt_process_items(t)
    \/ \E t \in YtTasks : yt_mark(t)
    \/ midnight

YtSpec == YtInit /\ [][YtNext]_vars

----------------------------------------------------------------------------
\* Conversions and command-boundary functions (serde.rs, music_commands.rs).
\* A string is the sequence of its characters.

\* Result::Ok(v) and Result::Err(e), Option::Some(v) and Option::None.
Ok(v) == [ok |-> TRUE, value |-> v]
Err(e) == [ok |-> FALSE, value |-> e]
Some(v) == [some |-> TRUE, value |-> v]
None == [some |-> FALSE, value |-> <<>>]

\* Largest number of hours of a duration.
MaxHours == 2

\* Minutes and seconds of a duration: none, one digit, two digits.
MinuteValues == {0, 2, 59}
SecondValues == {0, 3, 59}

\* std::time::Duration values with whole seconds.
Durations ==
    {3600 * h + 60 * m + s :
        h \in 0..MaxHours, m \in MinuteValues, s \in SecondValues}

\* A number of hours whose seconds do not fit in 32 bits.
HugeHours == 1193047

\* u32 arithmetic of the parser: val is a u32, and so are 3600 * val and
\* 60 * val.  u32::MAX is 4294967295 = 10 * U32MaxDiv10 + 5; the numbers
\* below are u32::MAX / 3600 and u32::MAX / 60.
U32MaxDiv10 == 429496729
U32MaxDiv3600 == 1193046
U32MaxDiv60 == 71582788
Half == 65536

\* k * val modulo 2^32 for a factor k below 2^15, computed in 16-bit halves.
wrapping_mul(k, val) ==
    LET lo == k * (val % Half)
        hi == k * (val \div Half) + (lo \div Half)
    IN  (hi % Half) * Half + (lo % Half)

\* Whether k * val exceeds u32::MAX.
mul_overflows(k, val) ==
    IF k = 3600 THEN val > U32MaxDiv3600
    ELSE IF k = 60 THEN val > U32MaxDiv60
    ELSE IF k = 10 THEN val > U32MaxDiv10
    ELSE FALSE

\* Whether val * 10 + d exceeds u32::MAX.
push_overflows(val, d) ==
    mul_overflows(10, val) \/ (val = U32MaxDiv10 /\ d > 5)

DigitChars == <<"0", "1", "2", "3", "4", "5", "6", "7", "8", "9">>

\* format!("{}", n) of an unsigned integer.
RECURSIVE to_string(_)
to_string(n) ==
    IF n < 10 THEN <<DigitChars[n + 1]>>
    ELSE to_string(n \div 10) \o <<DigitChars[(n % 10) + 1]>>

\* char::is_ascii_digit and char::to_digit(10).
is_ascii_digit(c) == \E d \in 1..10 : DigitChars[d] = c
to_digit(c) == (CHOOSE d \in 1..10 : DigitChars[d] = c) - 1

\* str::starts_with and str::ends_with.
starts_with(s, p) == Len(s) >= Len(p) /\ SubSeq(s, 1, Len(p)) = p
ends_with(s, p) ==
    Len(s) >= Len(p) /\ SubSeq(s, Len(s) - Len(p) + 1, Len(s)) = p

\* str::find: the index of the first occurrence of p in s, 0 when there is none.
find(s, p) ==
    LET at == {i \in 1..(Len(s) - Len(p) + 1) : SubSeq(s, i, i + Len(p) - 1) = p}
    IN  IF at = {} THEN 0 ELSE CHOOSE i \in at : \A j \in at : i <= j

\* str::split_once: the parts before and after the first occurrence of p.
split_once(s, p) ==
    LET i == find(s, p)
    IN  IF i = 0 THEN None
        ELSE Some(<<SubSeq(s, 1, i - 1), SubSeq(s, i + Len(p), Len(s))>>)

\* iso_duration::serialize: "PT", then for each non-zero component of hours,
\* minutes and seconds the unit letter followed by the number.
iso_duration_serialize(v) ==
    LET hours == v \div 3600
        rest == v - hours * 3600
        mins == rest \div 60
        secs == rest - mins * 60
    IN  <<"P", "T">>
        \o (IF hours > 0 THEN <<"H">> \o to_string(hours) ELSE <<>>)
        \o (IF mins > 0 THEN <<"M">> \o to_string(mins) ELSE <<>>)
        \o (IF secs > 0 THEN <<"S">> \o to_string(secs) ELSE <<>>)

\* Seconds per unit letter of the parser.
unit_seconds(c) ==
    IF c = "H" THEN 3600 ELSE IF c = "M" THEN 60 ELSE 1

\* The loop of visit_str over the characters after "PT": digits accumulate
\* in val, a unit letter adds val units to the duration and resets val, any
\* other character is skipped.  An overflowing u32 operation panics in a
\* build with overflow checks (the result is -1 here) and wraps in a build
\* without.
RECURSIVE visit_chars(_, _, _, _, _)
visit_chars(string, i, duration, val, overflow_checks) ==
    IF i > Len(string) THEN duration
    ELSE LET c == string[i] IN
         IF is_ascii_digit(c)
         THEN IF push_overflows(val, to_digit(c))
              THEN IF overflow_checks THEN -1
                   ELSE visit_chars(string, i + 1, duration,
                                    wrapping_mul(10, val) + to_digit(c),
                                    overflow_checks)
              ELSE visit_chars(string, i + 1, duration, val * 10 + to_digit(c),
                               overflow_checks)
         ELSE IF c \in {"H", "M", "S"}
         THEN IF mul_overflows(unit_seconds(c), val)
              THEN IF overflow_checks THEN -1
                   ELSE visit_chars(string, i + 1,
                                    duration + wrapping_mul(unit_seconds(c), val),
                                    0, overflow_checks)
              ELSE visit_chars(string, i + 1, duration + unit_seconds(c) * val,
                               0, overflow_checks)
         ELSE visit_chars(string, i + 1, duration, val, overflow_checks)

\* The handler's task has panicked.
Panicked == [ok |-> FALSE, value |-> "panic"]

\* ISODurationVisitor::visit_str.
iso_duration_visit_str(v, overflow_checks) ==
    LET split == split_once(v, <<"P", "T">>)
        duration == visit_chars(split.value[2], 1, 0, 0, overflow_checks)
    IN  IF ~split.some THEN Err("no duration specified")
        ELSE IF duration = -1 THEN Panicked
        ELSE Ok(duration)

\* bool_string::serialize.
bool_string_serialize(v) == IF v THEN <<"t", "r", "u", "e">> ELSE <<"f", "a", "l", "s", "e">>

\* A visitor that takes every string other than "true" for false.
bool_string_visit_str_lenient(v) ==
    IF v = <<"t", "r", "u", "e">> THEN Ok(TRUE) ELSE Ok(FALSE)

\* BoolStringVisitor::visit_str.
bool_string_visit_str(v) ==
    IF v = <<"t", "r", "u", "e">> THEN Ok(TRUE)
    ELSE IF v = <<"f", "a", "l", "s", "e">> THEN Ok(FALSE)
    ELSE Err("not a boolean string")

\* A duration text PT#H#M#S: with all three components, or with the zero
\* components left out (and 0S when all are zero).
iso_text(h, m, s, all) ==
    <<"P", "T">>
    \o (IF all \/ h > 0 THEN to_string(h) \o <<"H">> ELSE <<>>)
    \o (IF all \/ m > 0 THEN to_string(m) \o <<"M">> ELSE <<>>)
    \o (IF all \/ s > 0 \/ (h = 0 /\ m = 0) THEN to_string(s) \o <<"S">> ELSE <<>>)

\* Texts handed to the duration parser: well-formed ones, and texts without
\* "PT" (no prefix, a day component before "T", empty, not a duration).
DurationTexts ==
    {iso_text(h, m, s, all) :
        h \in 0..MaxHours, m \in MinuteValues, s \in SecondValues,
        all \in BOOLEAN}
    \cup {iso_text(HugeHours, 0, 0, FALSE)}
    \cup {<<"1", "H", "2", "M", "3", "S">>, <<"P", "1", "D", "T", "2", "H">>, <<>>, <<"t", "r", "u", "e">>}

\* Texts handed to the boolean parser.
BoolTexts == {<<"t", "r", "u", "e">>, <<"f", "a", "l", "s", "e">>, <<"T", "r", "u", "e">>, <<"1">>, <<>>, <<"P", "T", "0", "S">>}

\* Url::parse for the URLs the commands are given: a scheme of letters
\* followed by "://", then the host up to the first "/" or "?", the path up
\* to "?" ("/" when empty) and the query.  Text without a scheme is not a URL.
url_parse(s) ==
    LET split == split_once(s, <<":", "/", "/">>)
    IN  IF ~split.some \/ split.value[1] = <<>>
           \/ \E i \in 1..Len(split.value[1]) : split.value[1][i] \in {"/", "?", " ", "."}
        THEN None
        ELSE LET after == split.value[2]
                 q == find(after, <<"?">>)
                 before_query == IF q = 0 THEN after ELSE SubSeq(after, 1, q - 1)
                 query == IF q = 0 THEN <<>> ELSE SubSeq(after, q + 1, Len(after))
                 p == find(before_query, <<"/">>)
                 host == IF p = 0 THEN before_query ELSE SubSeq(before_query, 1, p - 1)
                 path == IF p = 0 THEN <<"/">>
                         ELSE SubSeq(before_query, p, Len(before_query))
             IN  IF host = <<>> THEN None
                 ELSE Some([domain |-> host, path |-> path, query |-> query])

\* Url::query_pairs: the query split at "&", each part split at its first "=".
RECURSIVE query_pairs(_)
query_pairs(query) ==
    IF query = <<>> THEN <<>>
    ELSE LET a == find(query, <<"&">>)
             part == IF a = 0 THEN query ELSE SubSeq(query, 1, a - 1)
             rest == IF a = 0 THEN <<>> ELSE SubSeq(query, a + 1, Len(query))
             e == find(part, <<"=">>)
             pair == IF e = 0 THEN <<part, <<>> >>
                     ELSE <<SubSeq(part, 1, e - 1), SubSeq(part, e + 1, Len(part))>>
         IN  (IF part = <<>> THEN <<>> ELSE <<pair>>) \o query_pairs(rest)

\* filter_map(|(k, v)| (k == key).then_some(v)).next()
first_param(pairs, key) ==
    LET at == {i \in 1..Len(pairs) : pairs[i][1] = key}
    IN  IF at = {} THEN None
        ELSE Some(pairs[CHOOSE i \in at : \A j \in at : i <= j][2])

\* get_yt_id_from_url.
get_yt_id_from_url(url) ==
    LET parsed == url_parse(url)
    IN  IF parsed.some /\ parsed.value.domain = <<"y", "o", "u", "t", "u", ".", "b", "e">>
        THEN [video_id |-> Some(SubSeq(parsed.value.path, 2, Len(parsed.value.path))),
              playlist_id |-> None]
        ELSE IF parsed.some /\ ends_with(parsed.value.domain, <<"y", "o", "u", "t", "u", "b", "e", ".", "c", "o", "m">>)
        THEN [video_id |-> first_param(query_pairs(parsed.value.query), <<"v">>),
              playlist_id |-> first_param(query_pairs(parsed.value.query), <<"l", "i", "s", "t">>)]
        ELSE [video_id |-> None, playlist_id |-> None]

\* Sources a command is given: a short link, long links with and without
\* subdomain and parameters, links of other domains, and search text.
Sources ==
    {<<"h", "t", "t", "p", "s", ":", "/", "/", "y", "o", "u", "t", "u", ".", "b", "e", "/", "A", "b", "C", "1", "2", "3">>,
     <<"h", "t", "t", "p", "s", ":", "/", "/", "w", "w", "w", ".", "y", "o", "u", "t", "u", "b", "e", ".", "c", "o", "m", "/", "w", "a", "t", "c", "h", "?", "v", "=", "A", "b", "C", "1", "2", "3", "&", "l", "i", "s", "t", "=", "P", "L", "1">>,
     <<"h", "t", "t", "p", "s", ":", "/", "/", "y", "o", "u", "t", "u", "b", "e", ".", "c", "o", "m", "/", "w", "a", "t", "c", "h", "?", "v", "=", "A", "b", "C", "1", "2", "3">>,
     <<"h", "t", "t", "p", "s", ":", "/", "/", "w", "w", "w", ".", "y", "o", "u", "t", "u", "b", "e", ".", "c", "o", "m", "/", "p", "l", "a", "y", "l", "i", "s", "t", "?", "l", "i", "s", "t", "=", "P", "L", "1">>,
     <<"h", "t", "t", "p", "s", ":", "/", "/", "e", "x", "a", "m", "p", "l", "e", ".", "c", "o", "m", "/", "w", "a", "t", "c", "h", "?", "v", "=", "A", "b", "C", "1", "2", "3", "&", "l", "i", "s", "t", "=", "P", "L", "1">>,
     <<"h", "t", "t", "p", "s", ":", "/", "/", "n", "o", "t", "y", "o", "u", "t", "u", "b", "e", ".", "c", "o", "m", "/", "w", "a", "t", "c", "h", "?", "v", "=", "A", "b", "C", "1", "2", "3">>,
     <<"l", "o", "f", "i", " ", "m", "i", "x">>}

\* What YoutubeClient::get_video and get_playlist return to a command.
LookupResults == {"Ok", "Request", "Api", "InvalidId", "QuotaExceeded"}

\* What YoutubeClient::search returns to a command: a list with a result of
\* the kind searched for, an empty list, or an error.
SearchResults == {"Found", "Empty", "Request", "Api", "InvalidId", "QuotaExceeded"}

\* enqueue_track: the metadata of the track; a failed lookup gives the
\* default metadata (unwrap_or_default); without a video id the metadata
\* comes from the downloader.
enqueue_track_metadata(source, lookup) ==
    LET url == url_parse(source)
        youtube_id == IF url.some THEN get_yt_id_from_url(source).video_id ELSE None
    IN  IF youtube_id.some
        THEN (IF lookup = "Ok" THEN "video" ELSE "default")
        ELSE "aux_metadata"

\* autocomplete_yt_video_search for three or more characters: the looked-up
\* title, the text itself for another URL, the search results, and the text
\* itself after any failure.
autocomplete_yt_video_search(partial, lookup, found) ==
    IF get_yt_id_from_url(partial).video_id.some
    THEN (IF lookup = "Ok" THEN "title" ELSE "partial")
    ELSE IF starts_with(partial, <<"h", "t", "t", "p", "s", ":">>) \/ starts_with(partial, <<"h", "t", "t", "p", ":">>)
    THEN "partial"
    ELSE IF found \in {"Found", "Empty"} THEN "results" ELSE "partial"

\* playlist, from the source to the loaded playlist: the id from the URL or
\* from a search whose failure or empty result is a panic!(), then the
\* lookup whose result is unwrapped.
playlist_load(source, found, lookup) ==
    LET from_url == get_yt_id_from_url(source).playlist_id
        playlist_id == IF from_url.some THEN "id"
                       ELSE IF found = "Found" THEN "id"
                       ELSE "panic"
    IN  IF playlist_id = "panic" THEN "Panic"
        ELSE IF lookup # "Ok" THEN "Panic"
        ELSE "Loaded"

\* Most tracks enqueue_track is followed through.
MaxQueued == 2

\* serenity UserId values of command authors.
UserIds == {1, 2}

\* The URL of TrackMetadata::default and of metadata without a usable URL.
ExampleUrl == url_parse(<<"h", "t", "t", "p", "s", ":", "/", "/", "e", "x", "a", "m", "p", "l", "e", ".", "c", "o", "m">>).value

\* A default whose title and author are empty.
TrackMetadata_untitled ==
    [title |-> "", author |-> "", duration |-> 0,
     source_url |-> ExampleUrl, requested_by |-> None]

\* TrackMetadata::default().
TrackMetadata_default ==
    [title |-> "Unknown", author |-> "Unknown", duration |-> 0,
     source_url |-> ExampleUrl, requested_by |-> None]

\* A from_with_request that keeps the requester of the value.
from_without_request(value, requested_by) == value

\* TrackMetadata::from_with_request.
from_with_request(value, requested_by) ==
    [value EXCEPT !.requested_by = Some(requested_by)]

\* YtVideo::get_yt_url.
get_yt_url(video) == url_parse(<<"h", "t", "t", "p", "s", ":", "/", "/", "w", "w", "w", ".", "y", "o", "u", "t", "u", "b", "e", ".", "c", "o", "m", "/", "w", "a", "t", "c", "h", "?", "v", "=">> \o video.id).value

\* The video get_video returns for an id.
YtVideoOf(video_id) ==
    [id |-> video_id, title |-> "Title", channel_title |-> "Channel", duration |-> 215]

\* impl From<YtVideo> for TrackMetadata.
from_yt_video(value) ==
    [title |-> value.title, author |-> value.channel_title,
     duration |-> value.duration, source_url |-> get_yt_url(value),
     requested_by |-> None]

\* What the downloader reports about a source: everything with a source URL
\* that does not parse, or nothing.
AuxMetadatas ==
    <<[title |-> Some("Title"), artist |-> Some("Artist"), duration |-> Some(215),
      source_url |-> Some(<<"n", "o", "t", " ", "a", " ", "u", "r", "l">>)],
     [title |-> None, artist |-> None, duration |-> None, source_url |-> None]>>

\* The results of track.aux_metadata(): one of these, or an error.
AuxResults ==
    [i \in 1..(Len(AuxMetadatas) + 1) |->
        IF i <= Len(AuxMetadatas) THEN Ok(AuxMetadatas[i])
        ELSE Err("AudioStreamError")]

\* impl From<AuxMetadata> for TrackMetadata.
from_aux_metadata(value) ==
    [title |-> IF value.title.some THEN value.title.value ELSE "Unknown",
     author |-> IF value.artist.some THEN value.artist.value ELSE "Unknown",
     duration |-> IF value.duration.some THEN value.duration.value ELSE 0,
     source_url |-> IF value.source_url.some /\ url_parse(value.source_url.value).some
                    THEN url_parse(value.source_url.value).value
                    ELSE ExampleUrl,
     requested_by |-> None]

\* Result::unwrap_or_default on a Result<TrackMetadata, _>.
unwrap_or_default(r) == IF r.ok THEN r.value ELSE TrackMetadata_default

\* enqueue_track, the metadata attached to the track: from the video lookup
\* when the source has a video id, from the downloader otherwise.
track_metadata(source, lookup, aux, author) ==
    LET url == url_parse(source)
        youtube_id == IF url.some THEN get_yt_id_from_url(source).video_id ELSE None
    IN  IF youtube_id.some
        THEN from_with_request(
                 unwrap_or_default(
                     IF lookup = "Ok" THEN Ok(from_yt_video(YtVideoOf(youtube_id.value)))
                     ELSE Err(lookup)),
                 author)
        ELSE from_with_request(
                 unwrap_or_default(
                     IF aux.ok THEN Ok(from_aux_metadata(aux.value)) ELSE aux),
                 author)

\* now_playing, the reply text: it names the requester, which is expected to
\* be present.
response_details(metadata) ==
    IF metadata.requested_by.some
    THEN Ok([title |-> metadata.title, author |-> metadata.author,
             source_url |-> metadata.source_url,
             requested_by |-> metadata.requested_by.value,
             duration |-> metadata.duration])
    ELSE Panicked


\* A function is applied.  When its argument is the result of the application
\* before it, that application is remembered.
Apply(f, arg, res, piped) ==
    /\ prev' = IF piped
               THEN [called |-> called, input |-> input, output |-> output]
               ELSE NoApplication
    /\ called' = f
    /\ input' = arg
    /\ output' = res
    /\ queued' = queued
    /\ UNCHANGED <<music_vars, yt_vars, cache_vars>>

apply_iso_duration_serialize ==
    \E v \in Durations :
        Apply("iso_duration::serialize", v, iso_duration_serialize(v), FALSE)

\* The parser is given a text, or the text just serialized.
apply_iso_duration_deserialize ==
    \E overflow_checks \in BOOLEAN :
        \/ \E v \in DurationTexts :
              Apply("iso_duration::deserialize", v,
                    iso_duration_visit_str(v, overflow_checks), FALSE)
        \/ /\ called = "iso_duration::serialize"
           /\ Apply("iso_duration::deserialize", output,
                    iso_duration_visit_str(output, overflow_checks), TRUE)

apply_bool_string_serialize ==
    \E v \in BOOLEAN :
        Apply("bool_string::serialize", v, bool_string_serialize(v), FALSE)

\* The parser is given a text, or the text just serialized.
apply_bool_string_deserialize ==
    \/ \E v \in BoolTexts :
          Apply("bool_string::deserialize", v, bool_string_visit_str(v), FALSE)
    \/ /\ called = "bool_string::serialize"
       /\ Apply("bool_string::deserialize", output,
                bool_string_visit_str(output), TRUE)

apply_get_yt_id_from_url ==
    \E url \in Sources :
        Apply("get_yt_id_from_url", url, get_yt_id_from_url(url), FALSE)

apply_enqueue_track ==
    \E source \in Sources, lookup \in LookupResults :
        Apply("enqueue_track", <<source, lookup>>,
              enqueue_track_metadata(source, lookup), FALSE)

apply_autocomplete ==
    \E partial \in Sources, lookup \in LookupResults, found \in SearchResults :
        Apply("autocomplete_yt_video_search", <<partial, lookup, found>>,
              autocomplete_yt_video_search(partial, lookup, found), FALSE)

apply_playlist ==
    \E source \in Sources, found \in SearchResults, lookup \in LookupResults :
        Apply("playlist", <<source, found, lookup>>,
              playlist_load(source, found, lookup), FALSE)

\* Sources of the tracks followed into the queue: a youtube link, a link of
\* another domain, and search text.
EnqueueSources ==
    {source \in Sources :
        \/ starts_with(source, <<"h", "t", "t", "p", "s", ":", "/", "/", "y", "o", "u", "t", "u", ".">>)
        \/ starts_with(source, <<"h", "t", "t", "p", "s", ":", "/", "/", "e">>)
        \/ starts_with(source, <<"l">>)}

\* enqueue_track from the metadata lookup to its return: the track with its
\* metadata goes to the back of the queue and Ok(metadata) is returned.
apply_enqueue_with_preload ==
    \E source \in EnqueueSources, lookup \in LookupResults, k \in DOMAIN AuxResults,
       author \in UserIds :
        LET aux == AuxResults[k]
            metadata == track_metadata(source, lookup, aux, author)
        IN
           /\ Len(queued) < MaxQueued
           /\ called' = "enqueue_with_preload"
           /\ input' = <<source, lookup, aux, author>>
           /\ output' = Ok(metadata)
           /\ queued' = Append(queued, metadata)
           /\ prev' = NoApplication
           /\ UNCHANGED <<music_vars, yt_vars, cache_vars>>

\* now_playing builds its reply from the metadata of the current track.
apply_now_playing ==
    /\ queued # <<>>
    /\ called' = "now_playing"
    /\ input' = queued[1]
    /\ output' = response_details(queued[1])
    /\ prev' = NoApplication
    /\ UNCHANGED queued
    /\ UNCHANGED <<music_vars, yt_vars, cache_vars>>

FnInit == MusicIdle /\ YtIdle /\ FnIdle

FnNext ==
    \/ apply_iso_duration_serialize
    \/ apply_iso_duration_deserialize
    \/ apply_bool_string_serialize
    \/ apply_bool_string_deserialize
    \/ apply_get_yt_id_from_url
    \/ apply_enqueue_track
    \/ apply_autocomplete
    \/ apply_playlist

FnSpec == FnInit /\ [][FnNext]_vars

\* The queue of one Call as enqueue_track fills it and now_playing reads it.
QueuedNext ==
    \/ apply_enqueue_with_preload
    \/ apply_now_playing

QueuedSpec == FnInit /\ [][QueuedNext]_vars

----------------------------------------------------------------------------
\* Properties.

\* The op in slot o takes a step.
Steps(o) == ops'[o] # ops[o]

\* The op in slot o calls songbird.join in this step.
IssuesJoin(o) == ops'[o].joins > ops[o].joins

\* The op in slot o calls call.leave() in this step.
IssuesLeave(o) == ops'[o].leaves > ops[o].leaves

\* C1: among concurrent play requests, a join is issued to the voice
\* transport only while the bot occupies no channel of the guild, so that at
\* most one request joins and a second request never changes the channel the
\* first one joined (it ends with Occupied or reuses the connection instead).
C1_SecondRequestNeverJoins ==
    [][\A o \in Slots :
         IssuesJoin(o) => current_channel(ops[o].guild) = NoChannel]_vars

\* C2: when a play command with skip_queue reorders the queue, the entry it
\* puts at index 1 (the second position) is the entry this command enqueued.
C2_SkipQueueMovesOwnEntry ==
    [][\A o \in Slots :
         (ops[o].pc = "modify_queue" /\ ops'[o].pc = "reply_locked")
            => call'[ops[o].guild].queue[2].by = ops[o].id]_vars

\* C3: every guild has at most one Call in the registry, and every handle a
\* running handler holds is that registered Call.
C3_OneSessionPerGuild ==
    /\ \A g \in Guilds : Cardinality(registry[g]) <= 1
    /\ \A o \in Slots :
         ops[o].handle # 0 => registry[ops[o].guild] = {ops[o].handle}

\* Two play commands have each gone through songbird.join (get_or_insert) for
\* the guild, and the registry holds one Call.
C3_Witness ==
    /\ \A o \in Slots : ops[o].cmd = "play" /\ ops[o].joins = 1
    /\ Cardinality(registry[1]) = 1

\* C4: a join_voice that finds the bot connected to a channel other than the
\* requested one ends the command with Occupied and changes nothing: no join
\* is issued, the Call (channel and queue) and the registry stay as they are.
C4_OccupiedChangesNothing ==
    [][\A o \in Slots :
         LET g == ops[o].guild IN
         (/\ ops[o].pc = "join_voice"
          /\ Steps(o)
          /\ songbird_get(g) # 0
          /\ current_channel(g) # NoChannel
          /\ current_channel(g) # ops[o].chan)
            => /\ ops'[o].pc = "done"
               /\ ops'[o].result = "JoinVoiceError_Occupied"
               /\ ops'[o].joins = 0
               /\ call' = call
               /\ registry' = registry]_vars

\* A play command has ended with Occupied while the bot is in another channel
\* than the one it asked for, with tracks queued.
C4_Witness ==
    \E o \in Slots :
        /\ ops[o].cmd = "play"
        /\ ops[o].result = "JoinVoiceError_Occupied"
        /\ current_channel(ops[o].guild) \notin {NoChannel, ops[o].chan}
        /\ call[ops[o].guild].queue # <<>>

\* C5: a join_voice that finds the bot connected to the requested channel
\* returns the registered Call without issuing a join and without changing
\* the Call or the registry; every repetition returns the same Call.
C5_ReuseIsIdempotent ==
    [][\A o \in Slots :
         LET g == ops[o].guild IN
         (/\ ops[o].pc = "join_voice"
          /\ Steps(o)
          /\ songbird_get(g) # 0
          /\ current_channel(g) # NoChannel
          /\ current_channel(g) = ops[o].chan)
            => /\ ops'[o].pc = "enqueue_track"
               /\ ops'[o].handle = songbird_get(g)
               /\ ops'[o].joins = 0
               /\ call' = call
               /\ registry' = registry]_vars

\* Two play commands have both been handed the existing Call without a join.
C5_Witness ==
    /\ \A o \in Slots :
         /\ ops[o].cmd = "play"
         /\ ops[o].pc = "enqueue_track"
         /\ ops[o].joins = 0
    /\ ops[1].handle = ops[2].handle

\* The tracks of the guild's queue that the op with this id enqueued.
EnqueuedBy(g, id) == positions(call[g].queue, id)

\* C6: a join_voice that finds no Call, or a Call without a current channel,
\* goes on to issue one join for the requested channel (never more than one
\* per command); when the join fails, the command ends with
\* JoinVoiceError::Join and has enqueued no track.
C6_JoinWhenNotConnected ==
    /\ [](\A o \in Slots :
            /\ ops[o].joins <= 1
            /\ ops[o].pc = "join" => ops[o].joins = 0
            /\ ops[o].pc = "join_wait" => ops[o].joins = 1
            /\ ops[o].pc \in {"join_voice", "join", "join_wait"}
                 => EnqueuedBy(ops[o].guild, ops[o].id) = {})
    /\ [][\A o \in Slots :
            LET g == ops[o].guild IN
            /\ (/\ ops[o].pc = "join_voice"
                /\ Steps(o)
                /\ (songbird_get(g) = 0 \/ current_channel(g) = NoChannel))
                  => ops'[o].pc = "join" /\ call' = call
            /\ (ops[o].pc = "join" /\ Steps(o))
                  => /\ ops'[o].joins = 1
                     /\ call'[g].channel = ops[o].chan
                     /\ call'[g].queue = call[g].queue
            /\ (ops[o].pc = "join_wait" /\ Steps(o) /\ call'[g] = call[g])
                  => /\ ops'[o].pc = "done"
                     /\ ops'[o].result = "JoinVoiceError_Join"
                     /\ call' = call]_vars

\* A play command found the bot in no channel, issued its one join, the join
\* failed, and the command ended with JoinVoiceError::Join on an empty queue.
C6_Witness ==
    \E o \in Slots :
        /\ ops[o].cmd = "play"
        /\ ops[o].result = "JoinVoiceError_Join"
        /\ ops[o].joins = 1
        /\ call[ops[o].guild].queue = <<>>

C8_MutationInCallersChannel ==
    [][\A o \in Slots :
         LET g == ops[o].guild IN
         (/\ ops[o].pc \in {"skip", "stop", "leave", "loop", "get_info", "set_loop"}
          /\ Steps(o)
          /\ (call'[g] # call[g] \/ IssuesLeave(o)))
            => current_channel(g) = ops[o].chan]_vars

\* The ops of both slots are handlers of voice-state-update events (the
\* second was invoked while the first was still running).
BothEvents == \A o \in Slots : ops[o].cmd = "event"

\* C9: with two event handlers pending on a guild whose bot is alone in its
\* channel with a non-empty queue, the handler that runs first stops the
\* queue and leaves, once, and the other is still pending; the handler that
\* runs second finds no current channel and an empty queue and does nothing,
\* so that the two have stopped the queue once and left once in total.
C9_AutoLeaveOnce ==
    [][\A o \in Slots : \A p \in Slots \ {o} :
         LET g == ops[o].guild IN
         /\ (/\ BothEvents
             /\ ops[o].pc = "on_api_event"
             /\ ops[p].pc = "on_api_event"
             /\ Steps(o)
             /\ songbird_get(g) # 0
             /\ call[g].channel # NoChannel
             /\ call[g].queue # <<>>
             /\ \A u \in Users : voice[u] # call[g].channel)
               => /\ call'[g].queue = <<>>
                  /\ call'[g].channel = NoChannel
                  /\ ops'[o].qstops = 1
                  /\ ops'[o].leaves = 1
                  /\ ops'[p] = ops[p]
         /\ (/\ BothEvents
             /\ ops[o].pc = "on_api_event"
             /\ ops[p].pc = "done"
             /\ ops[p].leaves = 1
             /\ Steps(o)
             /\ call[g].channel = NoChannel
             /\ call[g].queue = <<>>)
               => /\ call' = call
                  /\ ops'[o].result = "Ok"
                  /\ ops'[o].qstops + ops'[p].qstops = 1
                  /\ ops'[o].leaves + ops'[p].leaves = 1]_vars

\* Two concurrent event handlers have both returned: one stopped the queue
\* and left, the other did nothing.
C9_Witness ==
    /\ BothEvents
    /\ \A o \in Slots : ops[o].pc = "done"
    /\ ops[1].leaves + ops[2].leaves = 1
    /\ ops[1].qstops + ops[2].qstops = 1
    /\ call[1].queue = <<>>
    /\ current_channel(1) = NoChannel

\* C10: an event handler that finds the bot without a current channel and
\* with a non-empty queue clears the queue (nothing is left to play) and does
\* not call leave.
C10_DisconnectedClearsQueue ==
    [][\A o \in Slots :
         LET g == ops[o].guild IN
         (/\ ops[o].pc = "on_api_event"
          /\ Steps(o)
          /\ songbird_get(g) # 0
          /\ call[g].channel = NoChannel
          /\ call[g].queue # <<>>)
            => /\ call'[g].queue = <<>>
               /\ call'[g].channel = NoChannel
               /\ ops'[o].qstops = 1
               /\ ops'[o].leaves = 0
               /\ ops'[o].result = "Ok"]_vars

\* An event handler has cleared the queue of a disconnected bot without
\* calling leave.
C10_Witness ==
    \E o \in Slots :
        /\ ops[o].cmd = "event"
        /\ ops[o].pc = "done"
        /\ ops[o].qstops = 1
        /\ ops[o].leaves = 0
        /\ call[ops[o].guild].queue = <<>>

\* C11: an event handler whose leave fails returns LeaveVoice and leaves the
\* guild's Call registered, stopped and without a channel; no step ever takes
\* a registered Call out of the registry, so every later songbird.get for the
\* guild (in get_call of a leave command, in an event handler) finds it.
C11_LeaveFailureKeepsSession ==
    /\ [][\A o \in Slots :
            LET g == ops[o].guild IN
            (/\ ops[o].pc = "on_api_event"
             /\ IssuesLeave(o)
             /\ ops'[o].result # "Ok")
               => /\ ops'[o].result = "LeaveVoice"
                  /\ registry' = registry
                  /\ registry'[g] # {}
                  /\ call'[g] = [NewCall EXCEPT !.queue = <<>>]]_vars
    /\ [][\A g \in Guilds : registry[g] # {} => registry'[g] = registry[g]]_vars

\* An event handler has returned LeaveVoice, and a leave command invoked
\* afterwards has looked the guild's Call up in the registry, where it still is.
C11_Witness ==
    /\ ops[1].cmd = "event" /\ ops[1].result = "LeaveVoice"
    /\ ops[2].cmd = "leave" /\ ops[2].pc = "done"
    /\ registry[1] # {}

\* The task t takes a step of its YoutubeClient operation.
YtSteps(t) == yt'[t] # yt[t]

\* The task t's operation returns in this step.
YtReturns(t) == yt[t].pc # "done" /\ yt'[t].pc = "done"

\* C12: a marker that is set for the current UTC day is not erased: while the
\* marker names today, no step clears or changes it, so that every
\* is_ratelimited on that day returns true.
C12_MarkerOfTodayIsKept ==
    [][(rate_limited_day # 0 /\ rate_limited_day = now_utc)
          => rate_limited_day' = rate_limited_day]_vars

\* C13: an is_ratelimited that reads a marker of an earlier day writes
\* nothing under the read lock and goes on to clear it; the clear sets the
\* marker to None and the call returns false (the request is sent); a reader
\* goes on to clear only a marker of an earlier day; an is_ratelimited that
\* reads no marker returns false and writes nothing; and only the handling of
\* a 403 sets a marker again, so that without one the marker goes from set to
\* cleared once.
C13_StaleMarkerClearedOnce ==
    /\ [][\A t \in YtTasks :
            /\ (/\ yt[t].pc = "is_ratelimited"
                /\ YtSteps(t)
                /\ rate_limited_day # 0
                /\ rate_limited_day < now_utc)
                  => /\ yt'[t].pc = "clear"
                     /\ rate_limited_day' = rate_limited_day
            /\ (yt[t].pc = "clear" /\ YtSteps(t))
                  => /\ rate_limited_day' = 0
                     /\ yt'[t].pc = "send"
            /\ (yt[t].pc # "clear" /\ yt'[t].pc = "clear")
                  => /\ yt'[t].day # 0
                     /\ yt'[t].day < now_utc
            /\ (/\ yt[t].pc = "is_ratelimited"
                /\ YtSteps(t)
                /\ rate_limited_day = 0)
                  => /\ yt'[t].pc = "send"
                     /\ rate_limited_day' = 0]_vars
    /\ [][(rate_limited_day = 0 /\ rate_limited_day' # 0)
             => \E t \in YtTasks : yt[t].pc = "mark" /\ YtSteps(t)]_vars

\* On the day after the marker was set, one reader has cleared the marker and
\* sent its request while a second reader, which read the same marker, has
\* its own clear still ahead.
C13_Witness ==
    /\ now_utc = 2
    /\ rate_limited_day = 0
    /\ \E t \in YtTasks : yt[t].pc = "clear" /\ yt[t].day = 1
    /\ \E t \in YtTasks : yt[t].sent > 0

\* C14: an operation that finds the tracker exhausted (a marker of today or
\* later) when it calls is_ratelimited, or that has no API client, returns
\* QuotaExceeded without having sent a request; and no request is sent by an
\* operation that has not been through is_ratelimited with the answer false.
C14_ExhaustedSendsNothing ==
    [][\A t \in YtTasks :
         /\ (/\ yt[t].pc = "is_ratelimited"
             /\ YtSteps(t)
             /\ rate_limited_day # 0
             /\ rate_limited_day >= now_utc)
               => /\ yt'[t].pc = "done"
                  /\ yt'[t].result = "QuotaExceeded"
                  /\ yt'[t].sent = 0
         /\ (yt'[t].sent > yt[t].sent) => yt[t].pc = "send"
         /\ (yt[t].pc # "send" /\ yt'[t].pc = "send")
               => \/ yt[t].pc = "clear"
                  \/ rate_limited_day = 0]_vars

\* An operation has returned QuotaExceeded without a request, on a day for
\* which the marker is set.
C14_Witness ==
    \E t \in YtTasks :
        /\ yt_api_client
        /\ yt[t].pc = "done"
        /\ yt[t].result = "QuotaExceeded"
        /\ yt[t].sent = 0
        /\ rate_limited_day = now_utc

\* C15 as claimed: an operation that holds a response with status 403 returns
\* QuotaExceeded and leaves a marker set.
C15_ForbiddenAlwaysMarks ==
    [][\A t \in YtTasks :
         (YtReturns(t) /\ "Forbidden" \in {yt[t].meta, yt[t].items})
            => /\ yt'[t].result = "QuotaExceeded"
               /\ rate_limited_day' # 0]_vars

\* The response the task t hands to process_api_response in this step.
Processed(t) ==
    IF yt[t].pc = "process_meta" THEN yt[t].meta
    ELSE IF yt[t].pc = "process_items" THEN yt[t].items
    ELSE "none"

\* C15: a response with status 403 that process_api_response handles makes it
\* read the UTC day and then set the marker to that day and return
\* QuotaExceeded; one with another non-success status makes the operation
\* return Api with the marker unchanged; and get_playlist hands its items
\* response to process_api_response only after its metadata response has
\* given a playlist, otherwise it returns with the marker unchanged.
C15_ProcessedForbiddenMarks ==
    [][\A t \in YtTasks :
         /\ (YtSteps(t) /\ Processed(t) = "Forbidden")
               => /\ yt'[t].pc = "mark"
                  /\ yt'[t].day = now_utc
                  /\ rate_limited_day' = rate_limited_day
         /\ (yt[t].pc = "mark" /\ YtSteps(t))
               => /\ yt[t].day # 0
                  /\ rate_limited_day' = yt[t].day
                  /\ yt'[t].pc = "done"
                  /\ yt'[t].result = "QuotaExceeded"
         /\ (YtSteps(t) /\ Processed(t) = "Other")
               => /\ yt'[t].pc = "done"
                  /\ yt'[t].result = "Api"
                  /\ rate_limited_day' = rate_limited_day
         /\ (yt[t].pc # "process_items" /\ yt'[t].pc = "process_items")
               => /\ yt[t].pc = "process_meta"
                  /\ yt[t].cmd = "get_playlist"
                  /\ yt[t].meta = "Ok"
         /\ (/\ yt[t].pc = "process_meta"
             /\ YtSteps(t)
             /\ yt[t].meta \notin {"Ok", "Forbidden"})
               => /\ yt'[t].pc = "done"
                  /\ rate_limited_day' = rate_limited_day]_vars

\* A get_playlist has returned QuotaExceeded after its two requests, with the
\* marker set to today, and another operation has returned Api.
C15_Witness ==
    /\ rate_limited_day = now_utc
    /\ \E t \in YtTasks :
          /\ yt[t].cmd = "get_playlist"
          /\ yt[t].pc = "done"
          /\ yt[t].sent = 2
          /\ yt[t].result = "QuotaExceeded"
    /\ \E t \in YtTasks : yt[t].pc = "done" /\ yt[t].result = "Api"

\* C16: get_playlist returns a playlist exactly when its metadata response
\* has status 200 with a playlist in it and its items response has status 200
\* with a list that parses; with any other pair of outcomes it returns an
\* error (Request, QuotaExceeded, Api or InvalidId).
C16_PlaylistNeedsBothResponses ==
    [][\A t \in YtTasks :
         (yt[t].cmd = "get_playlist" /\ YtReturns(t))
            => /\ yt'[t].result = "Ok"
                    <=> /\ yt[t].pc = "process_items"
                        /\ yt[t].meta = "Ok"
                        /\ yt[t].items \in {"Ok", "Empty"}
               /\ yt'[t].result
                    \in {"Ok", "Request", "QuotaExceeded", "Api", "InvalidId"}]_vars

\* One get_playlist has returned a playlist after its two requests, and
\* another has sent its two requests and returned the Api error.
C16_Witness ==
    /\ \A t \in YtTasks :
          yt[t].cmd = "get_playlist" /\ yt[t].pc = "done" /\ yt[t].sent = 2
    /\ \E t \in YtTasks : yt[t].result = "Ok"
    /\ \E t \in YtTasks : yt[t].result = "Api"

C18_SkipOnEmptyQueue ==
    [][\A o \in Slots :
         LET g == ops[o].guild IN
         (/\ ops[o].pc = "skip"
          /\ Steps(o)
          /\ call[g].queue = <<>>)
            => /\ ops'[o].pc = "done"
               /\ ops'[o].result = "QueueEmpty"
               /\ call' = call
               /\ registry' = registry
               /\ lock' = lock]_vars

\* A skip command has returned QueueEmpty while the bot is in a channel with
\* nothing queued.
C18_Witness ==
    \E o \in Slots :
        /\ ops[o].cmd = "skip"
        /\ ops[o].result = "QueueEmpty"
        /\ current_channel(ops[o].guild) # NoChannel
        /\ call[ops[o].guild].queue = <<>>

\* C19: when a skip command that found a current entry returns, the entry it
\* skipped is no longer in the queue: the queue holds no entry that has been
\* told to stop.
C19_SkipRemovesCurrent ==
    [][\A o \in Slots :
         LET g == ops[o].guild IN
         (/\ ops[o].cmd = "skip"
          /\ ops[o].pc = "reply_locked"
          /\ ops'[o].pc = "done")
            => \A i \in 1..Len(call'[g].queue) : ~call'[g].queue[i].stopped]_vars

\* C20: stop on a Call with a non-empty queue empties the queue and leaves
\* the bot's channel as it is; stop on an empty queue returns QueueEmpty and
\* changes neither the Call nor the registry.
C20_StopClearsQueue ==
    [][\A o \in Slots :
         LET g == ops[o].guild IN
         /\ (/\ ops[o].pc = "stop"
             /\ Steps(o)
             /\ call[g].queue # <<>>)
               => /\ call'[g].queue = <<>>
                  /\ queue_current(call'[g].queue) = 0
                  /\ call'[g].channel = call[g].channel
                  /\ ops'[o].result # "QueueEmpty"
                  /\ registry' = registry
         /\ (/\ ops[o].pc = "stop"
             /\ Steps(o)
             /\ call[g].queue = <<>>)
               => /\ ops'[o].pc = "done"
                  /\ ops'[o].result = "QueueEmpty"
                  /\ call' = call
                  /\ registry' = registry]_vars

\* One stop command has emptied the queue and returned with the bot
\* still in its channel, and a second one has returned QueueEmpty.
C20_Witness ==
    /\ \A o \in Slots : ops[o].cmd = "stop" /\ ops[o].pc = "done"
    /\ \E o \in Slots : ops[o].qstops = 1 /\ ops[o].result = "Ok"
    /\ \E o \in Slots : ops[o].result = "QueueEmpty"
    /\ current_channel(1) # NoChannel
    /\ call[1].queue = <<>>

C22_LockReleasedOnEveryExit ==
    /\ [](\A g \in Guilds : lock[g] # 0 => ~Free(lock[g]))
    /\ \A g \in Guilds : (lock[g] # 0) ~> (lock[g] = 0)
    /\ \A o \in Slots : (~Free(o)) ~> Free(o)

\* A stop command has returned QueueEmpty and a leave command LeaveVoice, and
\* the guild's lock is free.
C22_Witness ==
    /\ \E o \in Slots : ops[o].cmd = "stop" /\ ops[o].result = "QueueEmpty"
    /\ \E o \in Slots : ops[o].cmd = "leave" /\ ops[o].result = "LeaveVoice"
    /\ lock[1] = 0

\* C23: get_call of now_playing, queue, loop, skip, stop and leave returns
\* NotInCall, and changes neither the Call nor the registry nor the lock,
\* when the guild has no Call, the Call has no current channel, the caller is
\* in no voice channel, or the caller's channel is not the bot's.
C23_NotInCallChangesNothing ==
    [][\A o \in Slots :
         LET g == ops[o].guild
             user_channel == get_author_voice_state(g, ops[o].author)
         IN  (/\ ops[o].pc = "get_call"
              /\ ops[o].cmd \in GetCallCommands
              /\ Steps(o)
              /\ \/ songbird_get(g) = 0
                 \/ current_channel(g) = NoChannel
                 \/ user_channel = NoChannel
                 \/ user_channel # current_channel(g))
                => /\ ops'[o].pc = "done"
                   /\ ops'[o].result = "NotInCall"
                   /\ call' = call
                   /\ registry' = registry
                   /\ lock' = lock]_vars

\* A now_playing command and a queue command have returned NotInCall while
\* the bot is in a channel, with a track queued, that the caller is not in.
C23_Witness ==
    /\ ops[1].cmd = "now_playing" /\ ops[1].result = "NotInCall"
    /\ ops[2].cmd = "queue" /\ ops[2].result = "NotInCall"
    /\ current_channel(1) # NoChannel
    /\ voice[1] \notin {NoChannel, current_channel(1)}
    /\ call[1].queue # <<>>

\* C30: an event handler that finds the bot in a channel with another member
\* in it changes nothing (the queue is not stopped, no leave is issued) and
\* returns Ok; an event handler issues a leave only when the bot is in a
\* channel that no other member is in.
C30_OthersPresentNoTeardown ==
    [][\A o \in Slots :
         LET g == ops[o].guild IN
         /\ (/\ ops[o].pc = "on_api_event"
             /\ Steps(o)
             /\ songbird_get(g) # 0
             /\ current_channel(g) # NoChannel
             /\ \E u \in Users : voice[u] = current_channel(g))
               => /\ call' = call
                  /\ registry' = registry
                  /\ ops'[o].qstops = 0
                  /\ ops'[o].leaves = 0
                  /\ ops'[o].result = "Ok"
         /\ (ops[o].pc = "on_api_event" /\ IssuesLeave(o))
               => /\ current_channel(g) # NoChannel
                  /\ \A u \in Users : voice[u] # current_channel(g)]_vars

\* An event handler has returned without stopping anything while the bot is
\* in a channel with a member and a track queued.
C30_Witness ==
    \E o \in Slots :
        /\ ops[o].cmd = "event"
        /\ ops[o].pc = "done"
        /\ ops[o].result = "Ok"
        /\ ops[o].qstops = 0
        /\ current_channel(1) # NoChannel
        /\ voice[1] = current_channel(1)
        /\ call[1].queue # <<>>

\* C24: serializing a whole-second duration writes "PT" followed by the
\* non-zero components as number then unit letter, in the order hours,
\* minutes, seconds; and parsing the serialized text gives the duration back.
C24_SerializeNumberThenUnit ==
    /\ called = "iso_duration::serialize" =>
          LET hours == input \div 3600
              mins == (input % 3600) \div 60
              secs == input % 60
          IN  output = <<"P", "T">>
                 \o (IF hours > 0 THEN to_string(hours) \o <<"H">> ELSE <<>>)
                 \o (IF mins > 0 THEN to_string(mins) \o <<"M">> ELSE <<>>)
                 \o (IF secs > 0 THEN to_string(secs) \o <<"S">> ELSE <<>>)
    /\ (called = "iso_duration::deserialize"
        /\ prev.called = "iso_duration::serialize")
          => output = Ok(prev.input)

\* C25: parsing PT#H#M#S, with any component optional, gives a duration of
\* exactly 3600 * hours + 60 * minutes + seconds (the components here have
\* minutes and seconds below 60, so the sum is compared component by
\* component); and a text without "PT" is rejected with an error.
C25_ParseGivesComponentSum ==
    called = "iso_duration::deserialize" =>
       /\ \A h \in (0..MaxHours) \cup {HugeHours}, m \in MinuteValues,
             s \in SecondValues, all \in BOOLEAN :
             input = iso_text(h, m, s, all) =>
                /\ output.ok
                /\ output.value \div 3600 = h
                /\ (output.value % 3600) \div 60 = m
                /\ output.value % 60 = s
       /\ (\A i \in 1..(Len(input) - 1) : ~(input[i] = "P" /\ input[i + 1] = "T"))
             => (~output.ok /\ output # Panicked)

\* C26: true serializes to "true" and false to "false", parsing the
\* serialized text gives the boolean back, and every string other than
\* these two is rejected with an error.
C26_BoolStringRoundTrips ==
    /\ called = "bool_string::serialize" =>
          output = (IF input THEN <<"t", "r", "u", "e">> ELSE <<"f", "a", "l", "s", "e">>)
    /\ (called = "bool_string::deserialize"
        /\ prev.called = "bool_string::serialize")
          => output = Ok(prev.input)
    /\ called = "bool_string::deserialize" =>
          /\ input = <<"t", "r", "u", "e">> => output = Ok(TRUE)
          /\ input = <<"f", "a", "l", "s", "e">> => output = Ok(FALSE)
          /\ input \notin {<<"t", "r", "u", "e">>, <<"f", "a", "l", "s", "e">>} => ~output.ok

\* The text serialized from false has been parsed back to false.
C26_Witness ==
    /\ called = "bool_string::deserialize"
    /\ prev.called = "bool_string::serialize"
    /\ prev.input = FALSE
    /\ input = <<"f", "a", "l", "s", "e">>
    /\ output = Ok(FALSE)

\* C27: for a youtu.be link the video id is the path segment and there is no
\* playlist id; for a link to youtube.com or a subdomain of it the ids are
\* the values of the v and list parameters; for a URL of any other domain
\* and for text that is not a URL there is neither id.
C27_IdsOnlyForYoutubeDomains ==
    called = "get_yt_id_from_url" =>
       LET parsed == url_parse(input)
           domain == parsed.value.domain
           pairs == query_pairs(parsed.value.query)
       IN  IF ~parsed.some
           THEN output = [video_id |-> None, playlist_id |-> None]
           ELSE IF domain = <<"y", "o", "u", "t", "u", ".", "b", "e">>
           THEN output = [video_id |-> Some(Tail(parsed.value.path)),
                          playlist_id |-> None]
           ELSE IF domain = <<"y", "o", "u", "t", "u", "b", "e", ".", "c", "o", "m">> \/ ends_with(domain, <<".", "y", "o", "u", "t", "u", "b", "e", ".", "c", "o", "m">>)
           THEN output = [video_id |-> first_param(pairs, <<"v">>),
                          playlist_id |-> first_param(pairs, <<"l", "i", "s", "t">>)]
           ELSE output = [video_id |-> None, playlist_id |-> None]

\* C28: no failure of the metadata API (a search or lookup error, or an empty
\* search result) inside enqueue_track, the autocompletion or the playlist
\* command ends in a panic.
C28_ApiFailureNeverPanics ==
    called \in {"enqueue_track", "autocomplete_yt_video_search", "playlist"}
       => output # "Panic"

\* C29 as claimed: a get_playlist that returns while one of its two responses
\* has status 403 returns QuotaExceeded and leaves a marker set.
C29_AnyForbiddenMarks ==
    [][\A t \in YtTasks :
         (/\ yt[t].cmd = "get_playlist"
          /\ YtReturns(t)
          /\ \/ yt[t].meta = "Forbidden"
             \/ yt[t].items = "Forbidden")
            => /\ yt'[t].result = "QuotaExceeded"
               /\ rate_limited_day' # 0]_vars

\* C29: get_playlist processes its metadata response first.  When that has
\* status 403, whatever the items response is, it reads the UTC day, sets the
\* marker to it and returns QuotaExceeded.  When the metadata response fails
\* in another way it returns that failure (Api, Request or InvalidId) with
\* the marker unchanged, also when the items response has status 403.  Only
\* after the metadata response gave a playlist is a 403 of the items response
\* handled, in the same way.  So get_playlist returns QuotaExceeded after its
\* two responses exactly when the metadata response is forbidden, or gave a
\* playlist while the items response is forbidden.
C29_PlaylistForbiddenMarks ==
    [][\A t \in YtTasks :
         yt[t].cmd = "get_playlist" =>
            /\ (yt[t].pc = "process_meta" /\ YtSteps(t) /\ yt[t].meta = "Forbidden")
                  => /\ yt'[t].pc = "mark"
                     /\ yt'[t].day = now_utc
            /\ (/\ yt[t].pc = "process_meta"
                /\ YtSteps(t)
                /\ yt[t].meta \notin {"Ok", "Forbidden"})
                  => /\ yt'[t].pc = "done"
                     /\ yt'[t].result \in {"Api", "Request", "InvalidId"}
                     /\ rate_limited_day' = rate_limited_day
            /\ (yt[t].pc = "process_items" /\ YtSteps(t))
                  => /\ yt[t].meta = "Ok"
                     /\ yt[t].items = "Forbidden"
                           => (yt'[t].pc = "mark" /\ yt'[t].day = now_utc)
            /\ (yt[t].pc = "mark" /\ YtSteps(t))
                  => /\ yt'[t].result = "QuotaExceeded"
                     /\ rate_limited_day' = yt[t].day
            /\ (YtReturns(t) /\ yt[t].sent = 2)
                  => (yt'[t].result = "QuotaExceeded"
                        <=> \/ yt[t].meta = "Forbidden"
                            \/ yt[t].meta = "Ok" /\ yt[t].items = "Forbidden")]_vars

\* One get_playlist has returned QuotaExceeded and set today's marker, and
\* another, whose metadata response gave a playlist and whose items response
\* is forbidden, has read the day and is about to set the marker.
C29_Witness ==
    /\ rate_limited_day = now_utc
    /\ \E t \in YtTasks :
          /\ yt[t].cmd = "get_playlist"
          /\ yt[t].pc = "done"
          /\ yt[t].sent = 2
          /\ yt[t].result = "QuotaExceeded"
    /\ \E t \in YtTasks :
          /\ yt[t].cmd = "get_playlist"
          /\ yt[t].pc = "mark"
          /\ yt[t].meta = "Ok"
          /\ yt[t].items = "Forbidden"

\* C31: a step of a command or event handler of guild A changes neither the
\* Call (channel, queue, loop flags), nor the registry entry, nor the lock of
\* any other guild B; and a running handler can take its next step whenever
\* the lock of its own guild is free or its own, whoever holds the lock of
\* another guild.
C31_GuildsAreIndependent ==
    /\ [][\A o \in Slots :
            Steps(o) =>
               \A b \in Guilds \ {ops'[o].guild} :
                  /\ call'[b] = call[b]
                  /\ registry'[b] = registry[b]
                  /\ lock'[b] = lock[b]]_vars
    /\ [](\A o \in Slots :
            (~Free(o) /\ lock[ops[o].guild] \in {0, o})
               => ENABLED HandlerStep(o))

\* While a handler of guild 1 holds that guild's lock, a command of guild 2
\* has passed get_call and can take its next step.
C31_Witness ==
    /\ lock[1] # 0
    /\ ops[lock[1]].guild = 1
    /\ \E o \in Slots :
          /\ ops[o].guild = 2
          /\ ops[o].cmd \in GetCallCommands
          /\ ops[o].pc = ops[o].cmd
          /\ ENABLED HandlerStep(o)

\* The only command invoked so far is a play whose skip_queue block has put
\* its track behind the current one, which it told to stop.
C32_StopPending(g) ==
    LET q == call[g].queue IN
    /\ nops = 1
    /\ Len(q) >= 2
    /\ q[1].stopped
    /\ q[2].by = 1

\* The track of the first command is the current one.
C32_NewIsCurrent(g) ==
    call[g].queue # <<>> /\ call[g].queue[1].by = 1

\* C32: the skip_queue block of a play command on a queue with a current
\* entry leaves the current entry told to stop and the new entry right
\* behind it; while no further command is invoked, every step from there
\* either keeps the queue or makes the new entry the current one; and with
\* the driver handling track ends, the new entry becomes the current one
\* (unless a further command is invoked first).
C32_NewEntryBecomesCurrent ==
    /\ [][\A o \in Slots :
            (/\ ops[o].pc = "modify_queue"
             /\ Steps(o)
             /\ nops = 1
             /\ Len(call[ops[o].guild].queue) > 1)
               => /\ C32_StopPending(ops[o].guild)'
                  /\ call'[ops[o].guild].queue[2].by = ops[o].id]_vars
    /\ [][\A g \in Guilds :
            (C32_StopPending(g) /\ nops' = 1)
               => \/ call'[g].queue = call[g].queue
                  \/ C32_NewIsCurrent(g)']_vars
    /\ \A g \in Guilds :
          C32_StopPending(g) ~> (C32_NewIsCurrent(g) \/ nops > 1)

\* The stop signal of the former current entry is pending and the new entry
\* is right behind it, with the play command about to reply.
C32_Witness ==
    /\ C32_StopPending(1)
    /\ ops[1].cmd = "play"
    /\ ops[1].pc = "reply_locked"
    /\ call[1].queue[1].by < 0

\* The sequence q without its i-th entry.
C33_Without(q, i) == SubSeq(q, 1, i - 1) \o SubSeq(q, i + 1, Len(q))

\* The enqueuing commands of the entries of q, in queue order.
C33_Order(q) == [i \in 1..Len(q) |-> q[i].by]

\* C33: enqueue_track puts the new entry at the tail and leaves the entries
\* before it as they were; the skip_queue reorder moves one entry to index 1
\* and keeps the relative order of all others; the skip_queue block of a
\* play command that finds no entry besides its own (the queue was empty)
\* leaves that entry at the front, changes nothing and signals no stop.
C33_EnqueueKeepsOrder ==
    [][\A o \in Slots :
         LET g == ops[o].guild
             q == call[g].queue
             r == call'[g].queue
         IN  /\ (ops[o].pc = "enqueue_track" /\ Steps(o))
                   => /\ r # <<>>
                      /\ r[Len(r)] = NewTrack(ops[o].id)
                      /\ C33_Without(r, Len(r)) = q
             /\ (ops[o].pc = "modify_queue" /\ Steps(o) /\ Len(q) > 1)
                   => /\ r[2] = q[Len(q)]
                      /\ C33_Order(C33_Without(r, 2))
                            = C33_Order(C33_Without(q, Len(q)))
             /\ (ops[o].pc = "skip_queue" /\ Steps(o) /\ Len(q) <= 1)
                   => /\ call' = call
                      /\ ops'[o].pc = "reply_locked"
             /\ (ops[o].pc = "reply_locked" /\ ops[o].cmd = "play" /\ Steps(o))
                   => call' = call]_vars

\* A play command with skip_queue that found the queue empty has its track
\* at the front, not told to stop, and is about to reply.
C33_Witness ==
    \E o \in Slots :
        LET q == call[ops[o].guild].queue IN
        /\ ops[o].cmd = "play" /\ ops[o].skipq
        /\ ops[o].pc = "reply_locked"
        /\ nops = 1
        /\ Len(q) = 1
        /\ q[1] = NewTrack(ops[o].id)

\* C34: under every interleaving of loop commands with each other and with
\* skip, the write of a loop command flips the flag of the entry that is
\* current when the flag is written (so that n completed loop commands on an
\* unchanged current entry leave it flipped n mod 2 times), and it never
\* changes the flag of an entry that has been told to stop by a skip.
C34_EachLoopFlipsOnce ==
    [][\A o \in Slots :
         LET g == ops[o].guild
             q == call[g].queue
         IN  (ops[o].pc = "set_loop" /\ Steps(o))
                => /\ (q # <<>> /\ ~q[1].stopped)
                         => call'[g].queue[1].loop = ~q[1].loop
                   /\ \A i \in 1..Len(q) :
                         q[i].stopped => call'[g].queue[i].loop = q[i].loop]_vars

\* C35: under every interleaving of play with leave, forced disconnect and
\* auto-leave, enqueue_track puts its track into the queue only while the
\* connection occupies a channel, so that a play command never leaves a
\* non-empty queue on a Call without a current channel.
C35_EnqueueOnlyWhileConnected ==
    [][\A o \in Slots :
         (ops[o].pc = "enqueue_track" /\ Steps(o))
            => /\ current_channel(ops[o].guild) # NoChannel
               /\ ~disconnected(ops[o].guild)']_vars

\* The metadata lookup of the last enqueue_track failed: the video lookup for
\* a source with a video id, the downloader's metadata otherwise.
C36_LookupFailed ==
    /\ called = "enqueue_with_preload"
    /\ IF url_parse(input[1]).some /\ get_yt_id_from_url(input[1]).video_id.some
       THEN input[2] # "Ok"
       ELSE ~input[3].ok

\* C36: enqueue_track returns Ok and has put the track at the back of the
\* queue whatever the metadata lookup gave; after a failed lookup the queued
\* entry carries the default metadata (title and author "Unknown", duration
\* zero) with the author of the command as its requester; and the step
\* changes nothing of the Calls besides.
C36_EnqueuedDespiteLookupFailure ==
    /\ [](called = "enqueue_with_preload" =>
            /\ output.ok
            /\ queued # <<>>
            /\ queued[Len(queued)] = output.value)
    /\ [](C36_LookupFailed =>
            /\ output.value.title = "Unknown"
            /\ output.value.author = "Unknown"
            /\ output.value.duration = 0
            /\ output.value.requested_by = Some(input[4]))
    /\ [][called' = "enqueue_with_preload" /\ called' # called =>
            /\ Len(queued') = Len(queued) + 1
            /\ SubSeq(queued', 1, Len(queued)) = queued
            /\ UNCHANGED <<music_vars, cache_vars>>]_vars

\* A play of a youtube link whose video lookup failed with QuotaExceeded has
\* queued its track behind another one.
C36_Witness ==
    /\ C36_LookupFailed
    /\ input[2] = "QuotaExceeded"
    /\ Len(queued) = 2
    /\ queued[2].title = "Unknown"

\* C37: every queued entry carries metadata whose requester is present, the
\* requester of the entry just queued is the author of the command, and
\* now_playing finds the requester it expects.
C37_RequesterAlwaysPresent ==
    /\ \A i \in 1..Len(queued) : queued[i].requested_by.some
    /\ called = "enqueue_with_preload" =>
          queued[Len(queued)].requested_by = Some(input[4])
    /\ called = "now_playing" =>
          /\ output.ok
          /\ Some(output.value.requested_by) = input.requested_by

\* now_playing has named user 2 as the requester of a current track that
\* carries default metadata.
C37_Witness ==
    /\ called = "now_playing"
    /\ output.ok
    /\ output.value.requested_by = 2
    /\ output.value.title = "Unknown"
    /\ queued[1].requested_by = Some(2)

\* C38: the leave command, once past get_call, empties the queue (nothing is
\* left playing) and drops the connection's channel in one step under the
\* Call mutex; when the transport's leave fails it returns LeaveVoice with
\* the queue cleared all the same; otherwise it keeps the mutex until it has
\* replied, so that the Call still has an empty queue and no channel when a
\* successful leave returns.
C38_LeaveClearsAndDisconnects ==
    [][\A o \in Slots :
         LET g == ops[o].guild IN
         /\ (ops[o].pc = "leave" /\ Steps(o))
               => /\ call'[g].queue = <<>>
                  /\ queue_current(call'[g].queue) = 0
                  /\ call'[g].channel = NoChannel
                  /\ IF ops'[o].pc = "done"
                     THEN ops'[o].result = "LeaveVoice" /\ lock'[g] = 0
                     ELSE ops'[o].pc = "reply_locked" /\ lock'[g] = o
         /\ (ops[o].cmd = "leave" /\ ops[o].pc = "reply_locked" /\ Steps(o))
               => /\ call[g].queue = <<>>
                  /\ call[g].channel = NoChannel
                  /\ call'[g] = call[g]
                  /\ ops'[o].result \in {"Ok", "Serenity"}]_vars

\* A leave command run on a connected Call with a queued track has returned
\* Ok: the queue is empty and the Call has no channel.
C38_Witness ==
    /\ nops = 1
    /\ ops[1].cmd = "leave"
    /\ ops[1].pc = "done"
    /\ ops[1].result = "Ok"
    /\ ops[1].qstops = 1
    /\ call[1].queue = <<>>
    /\ current_channel(1) = NoChannel

\* C39: when get_video, or get_playlist for its metadata, processes a
\* response with status 200 whose list has no item, the operation returns
\* InvalidId at once (get_playlist whatever its items response is) and the
\* marker stays as it was; and these operations return InvalidId in no other
\* case.
C39_EmptyListIsInvalidId ==
    [][\A t \in YtTasks :
         yt[t].cmd \in {"get_video", "get_playlist"} =>
            /\ (yt[t].pc = "process_meta" /\ YtSteps(t) /\ yt[t].meta = "Empty")
                  => /\ yt'[t].pc = "done"
                     /\ yt'[t].result = "InvalidId"
                     /\ rate_limited_day' = rate_limited_day
            /\ (YtReturns(t) /\ yt'[t].result = "InvalidId")
                  => /\ yt[t].pc = "process_meta"
                     /\ yt[t].meta = "Empty"]_vars

\* A get_video and a get_playlist have both returned InvalidId after their
\* requests, and no marker is set.
C39_Witness ==
    /\ rate_limited_day = 0
    /\ \E t \in YtTasks :
          /\ yt[t].cmd = "get_video"
          /\ yt[t].pc = "done"
          /\ yt[t].sent = 1
          /\ yt[t].result = "InvalidId"
    /\ \E t \in YtTasks :
          /\ yt[t].cmd = "get_playlist"
          /\ yt[t].pc = "done"
          /\ yt[t].sent = 2
          /\ yt[t].result = "InvalidId"

====
